---- MODULE Spec2Model ----
(***************************************************************************)
(* A model of the fwupd D-Bus client library: the firmware fetch pipeline  *)
(* (Client::fetch_firmware_from_release, src/src/lib.rs), the metadata     *)
(* update of a remote (Remote::update_metadata, src/src/remote.rs) and the *)
(* checksum engine both rest on (src/src/common.rs).                       *)
(*                                                                         *)
(* Text (URIs, paths) is a sequence of one-character strings.  An Option   *)
(* is a sequence of length 0 (None) or 1 (Some).  The file system is a     *)
(* directory (path -> inode) over a table of inodes (inode -> content), so *)
(* that an open handle outlives the removal of its path.  Every system     *)
(* call whose result the code looks at, and every HTTP or D-Bus call, may  *)
(* fail: the environment chooses.  The removal of a file, whose result the *)
(* code discards, is taken to succeed.                                     *)
(***************************************************************************)
EXTENDS Integers, Sequences, FiniteSets, TLC

(* ------------------------------------------------------------------ *)
(* Bounds                                                              *)
(* ------------------------------------------------------------------ *)

\* The longest HTTP response body, and so the longest file content.
MaxLen == 2

\* The number of caller threads; Spec lets only thread 1 call.
NProcs == 2

Procs == 1..NProcs

Bytes == {0, 1}

RECURSIVE SeqsUpTo(_)
SeqsUpTo(n) ==
  IF n = 0 THEN {<<>>}
  ELSE LET shorter == SeqsUpTo(n - 1)
       IN shorter \cup {Append(s, b) : s \in {t \in shorter : Len(t) = n - 1}, b \in Bytes}

\* Every content a server may send or a file may hold.
Contents == SeqsUpTo(MaxLen)

(* ------------------------------------------------------------------ *)
(* Options and text                                                    *)
(* ------------------------------------------------------------------ *)

None == <<>>
Some(x) == <<x>>
IsSome(o) == o # <<>>
Unwrap(o) == o[1]

EndsWith(s, c) == Len(s) > 0 /\ s[Len(s)] = c
StartsWith(s, c) == Len(s) > 0 /\ s[1] = c
Contains(s, c) == \E i \in 1..Len(s) : s[i] = c

\* The index of the last c of s, 0 when s has none.
LastIndexOf(s, c) ==
  IF Contains(s, c) THEN CHOOSE i \in 1..Len(s) : s[i] = c /\ \A j \in (i + 1)..Len(s) : s[j] # c
  ELSE 0

\* std::path::Path ignores trailing separators (the root "/" is kept).
RECURSIVE TrimSlashes(_)
TrimSlashes(s) ==
  IF Len(s) > 1 /\ EndsWith(s, "/") THEN TrimSlashes(SubSeq(s, 1, Len(s) - 1)) ELSE s

\* std::path::Path::file_name: the final component, None for "", "/" and "..".
PathFileName(s) ==
  LET t == TrimSlashes(s)
      b == SubSeq(t, LastIndexOf(t, "/") + 1, Len(t))
  IN IF t = <<>> \/ t = <<"/">> \/ b = <<".", ".">> THEN None ELSE Some(b)

\* std::path::Path::parent: the path without its final component, None for
\* "" and "/"; the parent of a bare file name is "".
PathParent(s) ==
  LET t == TrimSlashes(s)
      k == LastIndexOf(t, "/")
  IN IF t = <<>> \/ t = <<"/">> THEN None
     ELSE IF k = 0 THEN Some(<<>>)
     ELSE IF k = 1 THEN Some(<<"/">>)
     ELSE Some(TrimSlashes(SubSeq(t, 1, k - 1)))

\* std::path::Path::join: an absolute q replaces p.
PathJoin(p, q) ==
  IF StartsWith(q, "/") THEN q
  ELSE IF p = <<>> \/ EndsWith(p, "/") THEN p \o q
  ELSE p \o <<"/">> \o q

\* str::parse::<Url>: a URL needs a scheme, a ':' before any '/'.
UrlParses(s) ==
  \E i \in 2..Len(s) : s[i] = ":" /\ \A j \in 1..(i - 1) : s[j] \notin {"/", ":"}

(* ------------------------------------------------------------------ *)
(* Checksum engine (src/src/common.rs)                                 *)
(* ------------------------------------------------------------------ *)

\* The number of hex digits of a digest.
HexLen(alg) ==
  CASE alg = "MD5" -> 32 [] alg = "SHA1" -> 40 [] alg = "SHA256" -> 64 [] alg = "SHA512" -> 128

\* format!("{:x}", HexView::from(hasher.finish())): the lowercase hex text of
\* the digest of content.  A digest is taken to be collision-free: the text
\* names the algorithm and the content it is the digest of.
HexDigest(alg, content) ==
  [len |-> HexLen(alg), alg |-> alg, of |-> content, upper |-> FALSE]

\* The same hex digits in upper case: another text.
UpperCase(text) == [text EXCEPT !.upper = TRUE]

\* A text that is no digest at all, of a length no algorithm has.
GarbageText == [len |-> 8, alg |-> "?", of |-> <<>>, upper |-> FALSE]

\* checksum_guess_kind, were the default arm MD5.
checksum_guess_kind_md5(checksum) ==
  CASE checksum.len = 32 -> "MD5"
    [] checksum.len = 40 -> "SHA1"
    [] checksum.len = 64 -> "SHA256"
    [] checksum.len = 128 -> "SHA512"
    [] OTHER -> "MD5"

checksum_guess_kind(checksum) ==
  CASE checksum.len = 32 -> "MD5"
    [] checksum.len = 40 -> "SHA1"
    [] checksum.len = 64 -> "SHA256"
    [] checksum.len = 128 -> "SHA512"
    [] OTHER -> "SHA1"

ALGORITHMS == <<"SHA512", "SHA256", "SHA1">>

\* find_best_checksum, were the loops nested the other way round: the first
\* checksum of a kind of ALGORITHMS, in input order.
find_best_checksum_first(checksums) ==
  LET idx == {i \in 1..Len(checksums) :
                \E a \in 1..Len(ALGORITHMS) : checksum_guess_kind(checksums[i]) = ALGORITHMS[a]}
  IN IF idx = {} THEN None
     ELSE LET i == CHOOSE x \in idx : \A y \in idx : x <= y
          IN Some([text |-> checksums[i], alg |-> checksum_guess_kind(checksums[i])])

\* find_best_checksum, were it to settle for the first checksum of any kind
\* when none is of a kind of ALGORITHMS.
find_best_checksum_any(checksums) ==
  LET has(a) == \E i \in 1..Len(checksums) : checksum_guess_kind(checksums[i]) = ALGORITHMS[a]
      hits == {a \in 1..Len(ALGORITHMS) : has(a)}
  IN IF checksums = <<>> THEN None
     ELSE IF hits = {}
     THEN Some([text |-> checksums[1], alg |-> checksum_guess_kind(checksums[1])])
     ELSE LET a == CHOOSE x \in hits : \A y \in hits : x <= y
              idx == {i \in 1..Len(checksums) : checksum_guess_kind(checksums[i]) = ALGORITHMS[a]}
              i == CHOOSE x \in idx : \A y \in idx : x <= y
          IN Some([text |-> checksums[i], alg |-> ALGORITHMS[a]])

\* The first algorithm of ALGORITHMS some checksum is of, and the first
\* checksum of that kind; None when there is none.
find_best_checksum(checksums) ==
  LET has(a) == \E i \in 1..Len(checksums) : checksum_guess_kind(checksums[i]) = ALGORITHMS[a]
      hits == {a \in 1..Len(ALGORITHMS) : has(a)}
  IN IF hits = {} THEN None
     ELSE LET a == CHOOSE x \in hits : \A y \in hits : x <= y
              idx == {i \in 1..Len(checksums) : checksum_guess_kind(checksums[i]) = ALGORITHMS[a]}
              i == CHOOSE x \in idx : \A y \in idx : x <= y
          IN Some([text |-> checksums[i], alg |-> ALGORITHMS[a]])

\* validate_checksum, were the comparison to fold the case of the expected
\* text.
validate_checksum_folded(data, checksum, alg) ==
  IF data.fails THEN [is_err |-> TRUE, val |-> FALSE]
  ELSE [is_err |-> FALSE,
        val |-> ([checksum EXCEPT !.upper = FALSE] = HexDigest(alg, data.bytes))]

\* io::Result<bool>: Err when reading the stream fails, else Ok(whether the
\* digest of everything read equals the expected text).
validate_checksum(data, checksum, alg) ==
  IF data.fails THEN [is_err |-> TRUE, val |-> FALSE]
  ELSE [is_err |-> FALSE, val |-> (checksum = HexDigest(alg, data.bytes))]

(* ------------------------------------------------------------------ *)
(* Cache paths                                                         *)
(* ------------------------------------------------------------------ *)

\* The XDG cache home with the prefix "fwupd-client".
CacheRoot == <<"/", "c">>

\* common::place_in_cache: the file placed under the cache root.
place_in_cache(file) == PathJoin(CacheRoot, file)

\* common::cache_path, called by Remote::local_cache.
cache_path(file) == place_in_cache(file)

\* The path part of a URL: what follows the host.
UrlPath(url) ==
  LET k == CHOOSE i \in 2..Len(url) : url[i] = ":" /\ \A j \in 1..(i - 1) : url[j] # ":"
      rest == SubSeq(url, k + 3, Len(url))
      s == IF Contains(rest, "/")
           THEN CHOOSE i \in 1..Len(rest) : rest[i] = "/" /\ \A j \in 1..(i - 1) : rest[j] # "/"
           ELSE Len(rest) + 1
  IN SubSeq(rest, s, Len(rest))

\* common::cache_path_from_uri: the cache file of a firmware URI, keyed by
\* the basename of the URI's path.
cache_path_from_uri(uri) ==
  LET name == PathFileName(UrlPath(uri))
  IN place_in_cache(IF IsSome(name) THEN Unwrap(name) ELSE <<>>)

(* ------------------------------------------------------------------ *)
(* The service's remotes and the releases a caller may pass            *)
(* ------------------------------------------------------------------ *)

\* The firmware the vendor published, and the metadata of the remote.
Firmware == <<1>>
Metadata == <<0>>

\* "h://s/d/m.gz": where the metadata of the download remotes lives.
MetadataUri == <<"h", ":", "/", "/", "s", "/", "d", "/", "m", ".", "g", "z">>

\* "/v/m.gz": the remote's own cached metadata file.
FilenameCache == <<"/", "v", "/", "m", ".", "g", "z">>

\* "fw.cab" and "file:///d/fw.cab"
FwCab == <<"f", "w", ".", "c", "a", "b">>
FileUri == <<"f", "i", "l", "e", ":", "/", "/", "/", "d", "/">> \o FwCab

\* The ids of the remotes, and an id no remote has.
IdLvfs == <<"l", "v", "f", "s">>
IdOff == <<"o", "f", "f">>
IdLocal == <<"l", "o", "c", "a", "l">>
IdDir == <<"d", "i", "r">>
IdBare == <<"b", "a", "r", "e">>
IdGone == <<"g", "o", "n", "e">>
IdPlain == <<"p", "l", "a", "i", "n">>

DownloadRemote ==
  [remote_id |-> IdLvfs, kind |-> "Download", enabled |-> TRUE,
   filename_cache |-> FilenameCache, firmware_base_uri |-> None,
   uri |-> Some(MetadataUri), checksum |-> Some(HexDigest("SHA1", Metadata)),
   keyring |-> "JCAT", username |-> None, password |-> None]

\* The reply of GetRemotes, in the service's order.
GetRemotes ==
  << DownloadRemote,
     [DownloadRemote EXCEPT !.remote_id = IdOff, !.enabled = FALSE],
     [DownloadRemote EXCEPT !.remote_id = IdLocal, !.kind = "Local", !.uri = None,
                            !.checksum = None, !.keyring = "None"],
     [DownloadRemote EXCEPT !.remote_id = IdDir, !.kind = "Directory", !.enabled = FALSE,
                            !.uri = None, !.filename_cache = <<>>, !.checksum = None],
     [DownloadRemote EXCEPT !.remote_id = IdBare, !.kind = "Local", !.uri = None,
                            !.filename_cache = <<>>, !.checksum = None],
     [DownloadRemote EXCEPT !.remote_id = IdPlain, !.checksum = None, !.keyring = "GPG"] >>

RemoteIds == {GetRemotes[i].remote_id : i \in 1..Len(GetRemotes)}

Release(remote_id, uri, checksums) ==
  [remote_id |-> remote_id, uri |-> uri, checksums |-> checksums, size |-> Len(Firmware)]

\* The releases a caller may pass, by name.
Releases ==
  [ sha1     |-> Release(IdLvfs, FwCab, <<HexDigest("SHA1", Firmware)>>),
    best     |-> Release(IdLvfs, FwCab, <<HexDigest("MD5", Firmware),
                                          HexDigest("SHA1", <<>>),
                                          HexDigest("SHA256", Firmware)>>),
    md5      |-> Release(IdLvfs, FwCab, <<HexDigest("MD5", Firmware)>>),
    nosum    |-> Release(IdLvfs, FwCab, <<>>),
    off      |-> Release(IdOff, FwCab, <<HexDigest("SHA1", Firmware)>>),
    offnosum |-> Release(IdOff, FwCab, <<>>),
    local    |-> Release(IdLocal, FwCab, <<>>),
    dir      |-> Release(IdDir, FileUri, <<HexDigest("MD5", Firmware)>>),
    dirshort |-> Release(IdDir, FwCab, <<HexDigest("SHA1", Firmware)>>),
    bare     |-> Release(IdBare, FwCab, <<HexDigest("SHA1", Firmware)>>),
    gone     |-> Release(IdGone, FwCab, <<HexDigest("SHA1", Firmware)>>) ]

ReleaseNames == DOMAIN Releases

(* ------------------------------------------------------------------ *)
(* Remote resolver (src/src/remote.rs, src/src/lib.rs)                 *)
(* ------------------------------------------------------------------ *)

\* Client::remote, were it to settle for the first remote of the reply when
\* none has the id.
FindRemote_OrFirst(remotes, id) ==
  LET idx == {i \in 1..Len(remotes) : remotes[i].remote_id = id}
  IN IF idx = {} THEN Some(remotes[1])
     ELSE Some(remotes[CHOOSE i \in idx : \A j \in idx : i <= j])

\* Client::remote: the first remote of the reply with the id, or None.
FindRemote(remotes, id) ==
  LET idx == {i \in 1..Len(remotes) : remotes[i].remote_id = id}
  IN IF idx = {} THEN None
     ELSE Some(remotes[CHOOSE i \in idx : \A j \in idx : i <= j])

Panic == [panic |-> TRUE, val |-> None]
Value(v) == [panic |-> FALSE, val |-> v]

\* The match on remote.kind, were the slice of a Directory remote to start
\* one byte early.
LocalFilename_SliceFrom6(remote, release) ==
  CASE remote.kind = "Local" ->
         LET parent == PathParent(remote.filename_cache)
         IN IF IsSome(parent) THEN Value(Some(PathJoin(Unwrap(parent), release.uri)))
            ELSE Panic
    [] remote.kind = "Directory" ->
         IF Len(release.uri) >= 7
         THEN Value(Some(SubSeq(release.uri, 7, Len(release.uri))))
         ELSE Panic
    [] OTHER -> Value(None)

\* The match on remote.kind, were it to return at once for a disabled remote
\* as it does for a local one.
LocalFilename_SkipDisabled(remote, release) ==
  CASE ~remote.enabled -> Value(Some(release.uri))
    [] remote.kind = "Local" ->
         LET parent == PathParent(remote.filename_cache)
         IN IF IsSome(parent) THEN Value(Some(PathJoin(Unwrap(parent), release.uri)))
            ELSE Panic
    [] remote.kind = "Directory" ->
         IF Len(release.uri) >= 7
         THEN Value(Some(SubSeq(release.uri, 8, Len(release.uri))))
         ELSE Panic
    [] OTHER -> Value(None)

\* The match on remote.kind that opens fetch_firmware_from_release: the
\* local file of a Local or Directory remote, None for the other kinds.
\* The expect and the slice panic on a cache file name without parent and
\* on a URI shorter than 7 bytes.
LocalFilename(remote, release) ==
  CASE remote.kind = "Local" ->
         LET parent == PathParent(remote.filename_cache)
         IN IF IsSome(parent) THEN Value(Some(PathJoin(Unwrap(parent), release.uri)))
            ELSE Panic
    [] remote.kind = "Directory" ->
         IF Len(release.uri) >= 7
         THEN Value(Some(SubSeq(release.uri, 8, Len(release.uri))))
         ELSE Panic
    [] OTHER -> Value(None)

\* One trailing '/' removed.
StripSlash(s) == IF EndsWith(s, "/") THEN SubSeq(s, 1, Len(s) - 1) ELSE s

\* Remote::firmware_uri, were a reference that is a complete URI taken as
\* it is before the base URI of the firmware is looked at.
firmware_uri_whole(remote, url) ==
  LET uri ==
        IF Contains(url, "/")
        THEN Value(url)
        ELSE IF IsSome(remote.firmware_base_uri)
        THEN LET basename == PathFileName(url)
             IN IF IsSome(basename)
                THEN Value(StripSlash(Unwrap(remote.firmware_base_uri)) \o <<"/">> \o Unwrap(basename))
                ELSE Panic
        ELSE IF IsSome(remote.uri) /\ IsSome(PathParent(Unwrap(remote.uri)))
             THEN Value(StripSlash(Unwrap(PathParent(Unwrap(remote.uri)))) \o <<"/">> \o url)
             ELSE Panic
  IN IF ~uri.panic /\ UrlParses(uri.val) THEN uri ELSE Panic

\* Remote::firmware_uri, were the directory of the metadata URI not taken:
\* the reference is appended to the whole metadata URI.
firmware_uri_nodir(remote, url) ==
  LET uri ==
        IF IsSome(remote.firmware_base_uri)
        THEN LET basename == PathFileName(url)
             IN IF IsSome(basename)
                THEN Value(StripSlash(Unwrap(remote.firmware_base_uri)) \o <<"/">> \o Unwrap(basename))
                ELSE Panic
        ELSE IF ~Contains(url, "/")
        THEN IF IsSome(remote.uri) /\ IsSome(PathParent(Unwrap(remote.uri)))
             THEN Value(StripSlash(Unwrap(remote.uri)) \o <<"/">> \o url)
             ELSE Panic
        ELSE Value(url)
  IN IF ~uri.panic /\ UrlParses(uri.val) THEN uri ELSE Panic

\* Remote::firmware_uri: the URI the firmware is fetched from.
firmware_uri(remote, url) ==
  LET uri ==
        IF IsSome(remote.firmware_base_uri)
        THEN LET basename == PathFileName(url)
             IN IF IsSome(basename)
                THEN Value(StripSlash(Unwrap(remote.firmware_base_uri)) \o <<"/">> \o Unwrap(basename))
                ELSE Panic
        ELSE IF ~Contains(url, "/")
        THEN IF IsSome(remote.uri) /\ IsSome(PathParent(Unwrap(remote.uri)))
             THEN Value(StripSlash(Unwrap(PathParent(Unwrap(remote.uri)))) \o <<"/">> \o url)
             ELSE Panic
        ELSE Value(url)
  IN IF ~uri.panic /\ UrlParses(uri.val) THEN uri ELSE Panic

\* Remote::local_cache: the cache file of the remote's metadata, under the
\* remote's id; panics on a name without final component.
local_cache(remote, file) ==
  LET file_name == PathFileName(file)
  IN IF IsSome(file_name)
     THEN Value(cache_path(PathJoin(remote.remote_id, Unwrap(file_name))))
     ELSE Panic

\* The extension, were the default arm the only one.
SignatureExtension_Asc(keyring) == <<".", "a", "s", "c">>

\* The extension of the signature file of a keyring kind.
SignatureExtension(keyring) ==
  CASE keyring = "JCAT" -> <<".", "j", "c", "a", "t">>
    [] keyring = "PKCS7" -> <<".", "p", "7", "b">>
    [] OTHER -> <<".", "a", "s", "c">>

\* Remote::update_signature: the URI the signature is fetched from and the
\* cache file it is fetched to.
update_signature(remote, uri) ==
  LET extension == SignatureExtension(remote.keyring)
  IN [uri |-> uri \o extension,
      cache |-> local_cache(remote, remote.filename_cache \o extension)]

(* ------------------------------------------------------------------ *)
(* The file system                                                     *)
(* ------------------------------------------------------------------ *)

\* The cache file of the firmware of a release of a download remote.
FirmwarePath == cache_path_from_uri(firmware_uri(DownloadRemote, FwCab).val)

\* The cache files of the metadata of a remote and of its signature.
MetadataPath(remote) == local_cache(remote, remote.filename_cache).val
SignaturePath(remote) ==
  local_cache(remote, remote.filename_cache \o SignatureExtension(remote.keyring)).val

\* Every path the library may touch.
Paths ==
  {FirmwarePath}
  \cup {MetadataPath(GetRemotes[i]) :
          i \in {j \in 1..Len(GetRemotes) : ~local_cache(GetRemotes[j], GetRemotes[j].filename_cache).panic}}
  \cup {SignaturePath(GetRemotes[i]) :
          i \in {j \in 1..Len(GetRemotes) : ~local_cache(GetRemotes[j], GetRemotes[j].filename_cache).panic}}

\* Inode 0 is no inode.  A path and each handle of each thread may hold one.
Inodes == 1..(Cardinality(Paths) + 2 * NProcs)

NoFile == [ino |-> 0, off |-> 0]

\* Writing bytes at offset off of a file's content.
WriteAt(content, off, bytes) ==
  SubSeq(content, 1, off) \o bytes \o SubSeq(content, off + Len(bytes) + 1, Len(content))

\* What a read from offset off to the end of the file yields.
ReadFrom(content, off) == SubSeq(content, off + 1, Len(content))

\* The content of each path, None when the path does not exist.
Snapshot(d, i) == [path \in Paths |-> IF d[path] = 0 THEN None ELSE Some(i[d[path]])]

(* ------------------------------------------------------------------ *)
(* State                                                               *)
(* ------------------------------------------------------------------ *)

VARIABLES
  dir,     \* the directory: the inode of each path, 0 when the path does not exist
  inodes,  \* the content of each inode (empty when the inode is free)
  pc,      \* where each thread is in the operation it runs
  call,    \* the operation each thread runs and its arguments
  loc,     \* the local variables of that operation
  result,  \* what the operation returned
  trace,   \* what the operation did, in order: HTTP, file system, D-Bus, callback
  fs0      \* the content of each path when the operation was called

VARIABLES
  cancellable,  \* the Arc<AtomicBool> the caller shares with listen_signals
  bus,          \* the raw events the service has sent that the listener has not received
  listener,     \* the sequence listen_signals returned and what it has done
  input,        \* the function of the checksum engine called and its arguments
  output        \* what that function returned

cvars == <<dir, inodes, pc, call, loc, result, trace, fs0>>
lvars == <<cancellable, bus, listener>>
pvars == <<input, output>>

vars == <<dir, inodes, pc, call, loc, result, trace, fs0, cancellable, bus, listener, input, output>>

NoCall == [op |-> "none", release |-> "none", remote |-> <<>>, cb |-> FALSE, signals |-> FALSE]

LocInit ==
  [remote |-> None, uri |-> <<>>, file_path |-> <<>>, checksum |-> None,
   file |-> NoFile, download |-> NoFile, sig |-> NoFile,
   response |-> None, progress |-> 0, why |-> "none"]

NoResult == [kind |-> "none", err |-> "none", path |-> <<>>, file |-> NoFile]
Ok(path, file) == [kind |-> "Ok", err |-> "none", path |-> path, file |-> file]
Err(e) == [kind |-> "Err", err |-> e, path |-> <<>>, file |-> NoFile]
Panicked == [kind |-> "Panic", err |-> "none", path |-> <<>>, file |-> NoFile]

\* The entries of a trace.
Event(t, op, path, n, data, ok) ==
  [t |-> t, op |-> op, path |-> path, n |-> n, data |-> data, ok |-> ok]
\* A GET that succeeded, with the body of the response (read later).
Http(url, body) == Event("http", "GET", url, 0, body, TRUE)
\* A GET, or a read of the response, that failed.
HttpFailed(op, url) == Event("http", op, url, 0, <<>>, FALSE)
\* A read of the response that failed with ErrorKind::Interrupted.
HttpInterrupted(url) == Event("http", "interrupted", url, 0, <<>>, FALSE)
\* A system call on a path that succeeded, and one that failed.
Fs(op, path) == Event("fs", op, path, 0, <<>>, TRUE)
FsFailed(op, path) == Event("fs", op, path, 0, <<>>, FALSE)
\* The read of a file to its end, which fails or not.
FsRead(path, fails) == IF fails THEN FsFailed("read", path) ELSE Fs("read", path)
\* An event delivered to the callback.
Cb(event, n) == Event("cb", event, <<>>, n, <<>>, TRUE)
\* A D-Bus method call that succeeded, and one that failed.
Dbus(method) == Event("dbus", method, <<>>, 0, <<>>, TRUE)
DbusFailed(method) == Event("dbus", method, <<>>, 0, <<>>, FALSE)
\* The selection of the best checksum of the release.
Selected == Event("call", "find_best_checksum", <<>>, 0, <<>>, TRUE)

\* The inodes some path or some open handle holds.
InUse(d, l, r) ==
  {d[path] : path \in Paths}
  \cup UNION {{l[p].file.ino, l[p].download.ino, l[p].sig.ino, r[p].file.ino} : p \in Procs}

\* An inode nothing holds any more is freed.
Sweep(d, i, l, r) == [n \in Inodes |-> IF n \in InUse(d, l, r) THEN i[n] ELSE <<>>]

\* The inode a new file gets.
FreeInode ==
  CHOOSE n \in Inodes : n \notin InUse(dir, loc, result)
                        /\ \A m \in Inodes : m \notin InUse(dir, loc, result) => n <= m

\* No sequence of signals asked for yet.
NoListener ==
  [state |-> "idle", received |-> <<>>, loads |-> <<>>, yielded |-> <<>>, ends |-> <<>>]

\* No function of the checksum engine called, nothing returned.
NoInput == [f |-> "none"]
NoOutput == [returned |-> FALSE]

\* Nothing called on the client: the cache is empty.
InitCalls ==
  /\ dir = [path \in Paths |-> 0]
  /\ inodes = [n \in Inodes |-> <<>>]
  /\ pc = [p \in Procs |-> "idle"]
  /\ call = [p \in Procs |-> NoCall]
  /\ loc = [p \in Procs |-> LocInit]
  /\ result = [p \in Procs |-> NoResult]
  /\ trace = [p \in Procs |-> <<>>]
  /\ fs0 = [p \in Procs |-> [path \in Paths |-> None]]

Init ==
  /\ InitCalls
  /\ cancellable = TRUE /\ bus = <<>> /\ listener = NoListener
  /\ input = NoInput /\ output = NoOutput

\* One step of thread p: to label `to` with locals l, having done evs and
\* left the file system as d and i.
Step(p, to, l, res, evs, d, i) ==
  /\ pc' = [pc EXCEPT ![p] = to]
  /\ loc' = [loc EXCEPT ![p] = l]
  /\ result' = [result EXCEPT ![p] = res]
  /\ trace' = [trace EXCEPT ![p] = trace[p] \o evs]
  /\ dir' = d
  /\ inodes' = Sweep(d, i, loc', result')
  /\ UNCHANGED <<call, fs0, lvars, pvars>>

\* The statements of fetch_firmware_from_release.
FetchLabels ==
  {"f_remote", "f_resolve", "f_exists", "f_open", "f_validate", "f_create", "f_get",
   "f_copy", "f_seek", "f_verify", "f_rollback", "f_final"}

\* update_device_with_release goes on when the fetch it called returns Ok;
\* the `?` hands an error of the fetch to its own caller.
Continues(p, res) ==
  call[p].op = "update_device_with_release" /\ pc[p] \in FetchLabels /\ res.kind = "Ok"

\* The operation of thread p returns res: its locals are dropped.
Return(p, res, evs, d, i) ==
  Step(p, IF Continues(p, res) THEN "u_flash" ELSE "done", LocInit, res, evs, d, i)

\* Thread p calls an operation: what the previous one returned is dropped.
Enter(p, c, to) ==
  /\ pc[p] \in {"idle", "done"}
  /\ call' = [call EXCEPT ![p] = c]
  /\ pc' = [pc EXCEPT ![p] = to]
  /\ loc' = [loc EXCEPT ![p] = LocInit]
  /\ result' = [result EXCEPT ![p] = NoResult]
  /\ trace' = [trace EXCEPT ![p] = <<>>]
  /\ fs0' = [fs0 EXCEPT ![p] = Snapshot(dir, inodes)]
  /\ dir' = dir
  /\ inodes' = Sweep(dir, inodes, loc', result')
  /\ UNCHANGED <<lvars, pvars>>

(* ------------------------------------------------------------------ *)
(* Client::fetch_firmware_from_release (src/src/lib.rs)                *)
(* ------------------------------------------------------------------ *)

\* vec![0u8; 8192]: the most one read of the response yields.
BufferSize == 8192

Min(a, b) == IF a <= b THEN a ELSE b

\* Whether the callback is Some: its events are delivered.
Notify(p, event, n) == IF call[p].cb THEN <<Cb(event, n)>> ELSE <<>>

\* firmware_requires_fetching, were the cached file never trusted.
RequiresFetching_Always(validation) == TRUE

\* The cached firmware is fetched again when its validation is an error.
RequiresFetching(validation) == validation.is_err

\* The download is rejected when its validation is an error.
ChecksumRejected(validation) == validation.is_err

\* A caller passes a release and, or not, a callback.  A signal may
\* interrupt a read of a call with a callback, which ends the copy; without
\* a callback io::copy repeats the read and the call goes on as it would
\* have (the pairs of SpecPair have such reads).
FetchCall(p) ==
  \E r \in ReleaseNames, cb \in BOOLEAN :
    Enter(p, [op |-> "fetch", release |-> r, remote |-> <<>>, cb |-> cb, signals |-> cb],
          "f_remote")

\* self.remote(release)?, then the match on the kind of the remote.
FetchRemote(p) ==
  /\ pc[p] = "f_remote"
  /\ LET release == Releases[call[p].release]
         found == FindRemote(GetRemotes, release.remote_id)
     IN \/ Return(p, Err("Call"), <<DbusFailed("GetRemotes")>>, dir, inodes)
        \/ /\ found = None
           /\ Return(p, Err("RemoteNotFound"), <<Dbus("GetRemotes")>>, dir, inodes)
        \/ /\ found # None
           /\ LET local == LocalFilename(Unwrap(found), release)
              IN IF local.panic
                 THEN Return(p, Panicked, <<Dbus("GetRemotes")>>, dir, inodes)
                 ELSE IF IsSome(local.val)
                 THEN Return(p, Ok(Unwrap(local.val), NoFile), <<Dbus("GetRemotes")>>, dir, inodes)
                 ELSE Step(p, "f_resolve", [loc[p] EXCEPT !.remote = found], NoResult,
                           <<Dbus("GetRemotes")>>, dir, inodes)

\* The URI, the cache path, the request and the best checksum.
FetchResolve(p) ==
  /\ pc[p] = "f_resolve"
  /\ LET release == Releases[call[p].release]
         uri == firmware_uri(Unwrap(loc[p].remote), release.uri)
         best == find_best_checksum(release.checksums)
     IN IF uri.panic
        THEN Return(p, Panicked, <<>>, dir, inodes)
        ELSE IF best = None
        THEN Return(p, Err("ReleaseWithoutChecksums"), <<Selected>>, dir, inodes)
        ELSE Step(p, "f_exists",
                  [loc[p] EXCEPT !.uri = uri.val, !.file_path = cache_path_from_uri(uri.val),
                                 !.checksum = best],
                  NoResult, <<Selected>>, dir, inodes)

\* file_path.exists()
FetchExists(p) ==
  /\ pc[p] = "f_exists"
  /\ Step(p, IF dir[loc[p].file_path] # 0 THEN "f_open" ELSE "f_create", loc[p], NoResult,
          <<Fs("exists", loc[p].file_path)>>, dir, inodes)

\* OpenOptions::new().read(true).open(&file_path)
FetchOpenCache(p) ==
  /\ pc[p] = "f_open"
  /\ LET path == loc[p].file_path
     IN \/ /\ dir[path] # 0
           /\ Step(p, "f_validate", [loc[p] EXCEPT !.file = [ino |-> dir[path], off |-> 0]],
                   NoResult, <<Fs("open", path)>>, dir, inodes)
        \/ Return(p, Err("FirmwareOpen"), <<FsFailed("open", path)>>, dir, inodes)

\* validate_checksum(&mut cache, checksum, algorithm).is_err()
FetchValidateCache(p) ==
  /\ pc[p] = "f_validate"
  /\ \E fails \in BOOLEAN :
       LET content == inodes[loc[p].file.ino]
           best == Unwrap(loc[p].checksum)
           data == [bytes |-> ReadFrom(content, loc[p].file.off), fails |-> fails]
           validation == validate_checksum(data, best.text, best.alg)
       IN Step(p, IF RequiresFetching(validation) THEN "f_create" ELSE "f_final",
               [loc[p] EXCEPT !.file.off = IF fails THEN @ ELSE Len(content)],
               NoResult, <<FsRead(loc[p].file_path, fails)>>, dir, inodes)

\* OpenOptions::new().read(true).write(true).create(true).open(&file_path):
\* an existing file is opened as it is, not truncated.
FetchCreate(p) ==
  /\ pc[p] = "f_create"
  /\ LET path == loc[p].file_path
         ino == IF dir[path] # 0 THEN dir[path] ELSE FreeInode
     IN \/ Step(p, "f_get", [loc[p] EXCEPT !.download = [ino |-> ino, off |-> 0]], NoResult,
                <<Fs("create", path)>>, [dir EXCEPT ![path] = ino], inodes)
        \/ Return(p, Err("FirmwareCreate"), <<FsFailed("create", path)>>, dir, inodes)

\* download_and_verify: DownloadInitiate, then request.call()
FetchGet(p) ==
  /\ pc[p] = "f_get"
  /\ LET init == Notify(p, "DownloadInitiate", Releases[call[p].release].size)
     IN \/ \E body \in Contents :
             Step(p, "f_copy", [loc[p] EXCEPT !.response = Some(body)], NoResult,
                  init \o <<Http(loc[p].uri, body)>>, dir, inodes)
        \/ Step(p, "f_rollback", [loc[p] EXCEPT !.why = "FirmwareGet"], NoResult,
                init \o <<HttpFailed("GET", loc[p].uri)>>, dir, inodes)

\* The loop that copies the response, were DownloadComplete delivered only
\* at the end of a copy that succeeded.
FetchCopy_CompleteOnSuccess(p) ==
  /\ pc[p] = "f_copy"
  /\ LET rest == Unwrap(loc[p].response)
         file == loc[p].download
         path == loc[p].file_path
         written(k) == [inodes EXCEPT ![file.ino] = WriteAt(@, file.off, SubSeq(rest, 1, k))]
     IN \/ \E read \in 1..Min(Len(rest), BufferSize) :
             Step(p, "f_copy",
                  [loc[p] EXCEPT !.response = Some(SubSeq(rest, read + 1, Len(rest))),
                                 !.download.off = @ + read, !.progress = @ + read],
                  NoResult,
                  <<Fs("write", path)>> \o Notify(p, "DownloadUpdate", loc[p].progress + read),
                  dir, written(read))
        \/ /\ rest = <<>>
           /\ Step(p, "f_seek", [loc[p] EXCEPT !.response = None], NoResult,
                   Notify(p, "DownloadComplete", 0), dir, inodes)
        \/ Step(p, "f_rollback", [loc[p] EXCEPT !.response = None, !.why = "FirmwareCopy"],
                NoResult, <<HttpFailed("read", loc[p].uri)>>, dir, inodes)
        \/ \E read \in 1..Min(Len(rest), BufferSize) : \E k \in 0..(read - 1) :
             Step(p, "f_rollback",
                  [loc[p] EXCEPT !.response = None, !.download.off = @ + k,
                                 !.why = "FirmwareCopy"],
                  NoResult, <<FsFailed("write", path)>>, dir, written(k))

\* The most reads of a response that a signal interrupts.
MaxInterrupts == 1

\* The reads of the response of thread p that were interrupted.
Interrupts(p) == {i \in 1..Len(trace[p]) : trace[p][i] = HttpInterrupted(loc[p].uri)}

\* download_and_verify: one turn of the loop that copies the response into
\* the file.  With a callback the loop is the code's own and `?` ends it on
\* every error of read and of write_all; without one it is io::copy, which
\* ends on every error but a read that was interrupted, which it repeats.
FetchCopy(p) ==
  /\ pc[p] = "f_copy"
  /\ LET rest == Unwrap(loc[p].response)
         file == loc[p].download
         path == loc[p].file_path
         written(k) == [inodes EXCEPT ![file.ino] = WriteAt(@, file.off, SubSeq(rest, 1, k))]
     IN \/ \E read \in 1..Min(Len(rest), BufferSize) :
             Step(p, "f_copy",
                  [loc[p] EXCEPT !.response = Some(SubSeq(rest, read + 1, Len(rest))),
                                 !.download.off = @ + read, !.progress = @ + read],
                  NoResult,
                  <<Fs("write", path)>> \o Notify(p, "DownloadUpdate", loc[p].progress + read),
                  dir, written(read))
        \/ /\ rest = <<>>
           /\ Step(p, "f_seek", [loc[p] EXCEPT !.response = None], NoResult,
                   Notify(p, "DownloadComplete", 0), dir, inodes)
        \/ Step(p, "f_rollback", [loc[p] EXCEPT !.response = None, !.why = "FirmwareCopy"],
                NoResult, <<HttpFailed("read", loc[p].uri)>> \o Notify(p, "DownloadComplete", 0),
                dir, inodes)
        \/ \E read \in 1..Min(Len(rest), BufferSize) : \E k \in 0..(read - 1) :
             Step(p, "f_rollback",
                  [loc[p] EXCEPT !.response = None, !.download.off = @ + k,
                                 !.why = "FirmwareCopy"],
                  NoResult, <<FsFailed("write", path)>> \o Notify(p, "DownloadComplete", 0),
                  dir, written(k))
        \/ /\ call[p].signals
           /\ Cardinality(Interrupts(p)) < MaxInterrupts
           /\ IF call[p].cb
              THEN Step(p, "f_rollback",
                        [loc[p] EXCEPT !.response = None, !.why = "FirmwareCopy"], NoResult,
                        <<HttpInterrupted(loc[p].uri)>> \o Notify(p, "DownloadComplete", 0),
                        dir, inodes)
              ELSE Step(p, "f_copy", loc[p], NoResult, <<HttpInterrupted(loc[p].uri)>>,
                        dir, inodes)

\* download_and_verify, were VerifyingChecksum delivered before the rewind.
FetchSeek_NotifyFirst(p) ==
  /\ pc[p] = "f_seek"
  /\ LET path == loc[p].file_path
     IN \/ Step(p, "f_verify", [loc[p] EXCEPT !.download.off = 0], NoResult,
                Notify(p, "VerifyingChecksum", 0) \o <<Fs("seek", path)>>, dir, inodes)
        \/ Step(p, "f_rollback", [loc[p] EXCEPT !.why = "FirmwareSeek"], NoResult,
                Notify(p, "VerifyingChecksum", 0) \o <<FsFailed("seek", path)>>, dir, inodes)

\* download_and_verify: file.seek(SeekFrom::Start(0)), then VerifyingChecksum
FetchSeek(p) ==
  /\ pc[p] = "f_seek"
  /\ LET path == loc[p].file_path
     IN \/ Step(p, "f_verify", [loc[p] EXCEPT !.download.off = 0], NoResult,
                <<Fs("seek", path)>> \o Notify(p, "VerifyingChecksum", 0), dir, inodes)
        \/ Step(p, "f_rollback", [loc[p] EXCEPT !.why = "FirmwareSeek"], NoResult,
                <<FsFailed("seek", path)>>, dir, inodes)

\* download_and_verify: validate_checksum(&mut file, checksum, algorithm),
\* then file = Some(download)
FetchVerify(p) ==
  /\ pc[p] = "f_verify"
  /\ \E fails \in BOOLEAN :
       LET content == inodes[loc[p].download.ino]
           best == Unwrap(loc[p].checksum)
           data == [bytes |-> ReadFrom(content, loc[p].download.off), fails |-> fails]
           validation == validate_checksum(data, best.text, best.alg)
       IN IF ChecksumRejected(validation)
          THEN Step(p, "f_rollback", [loc[p] EXCEPT !.why = "FirmwareChecksumMismatch"],
                    NoResult, <<FsRead(loc[p].file_path, fails)>>, dir, inodes)
          ELSE Step(p, "f_final",
                    [loc[p] EXCEPT !.file = [loc[p].download EXCEPT !.off = Len(content)],
                                   !.download = NoFile],
                    NoResult, <<FsRead(loc[p].file_path, fails)>>, dir, inodes)

\* The error arm, were it to return the error and leave the file.
FetchRollback_KeepFile(p) ==
  /\ pc[p] = "f_rollback"
  /\ Return(p, Err(loc[p].why), <<>>, dir, inodes)

\* let _ = fs::remove_file(&file_path); return Err(why)
\* The result of the removal is discarded; the removal is taken to succeed.
FetchRollback(p) ==
  /\ pc[p] = "f_rollback"
  /\ Return(p, Err(loc[p].why), <<Fs("remove", loc[p].file_path)>>,
            [dir EXCEPT ![loc[p].file_path] = 0], inodes)

\* The end of the fetch, were the file taken out of the cache when it is
\* handed over.
FetchFinal_Unlinked(p) ==
  /\ pc[p] = "f_final"
  /\ LET path == loc[p].file_path
     IN \/ Return(p, Ok(path, [loc[p].file EXCEPT !.off = 0]), <<Fs("seek", path)>>,
                  [dir EXCEPT ![path] = 0], inodes)
        \/ Return(p, Err("FirmwareSeek"), <<FsFailed("seek", path)>>, dir, inodes)

\* The end of the fetch, were the file handed over where the validation
\* left it.
FetchFinal_NoSeek(p) ==
  /\ pc[p] = "f_final"
  /\ Return(p, Ok(loc[p].file_path, loc[p].file), <<>>, dir, inodes)

\* file.seek(SeekFrom::Start(0)), then Ok((file_path, file))
FetchFinal(p) ==
  /\ pc[p] = "f_final"
  /\ LET path == loc[p].file_path
     IN \/ Return(p, Ok(path, [loc[p].file EXCEPT !.off = 0]), <<Fs("seek", path)>>, dir, inodes)
        \/ Return(p, Err("FirmwareSeek"), <<FsFailed("seek", path)>>, dir, inodes)

\* The steps of a fetch of thread p.
Fetch(p) ==
  \/ FetchRemote(p) \/ FetchResolve(p) \/ FetchExists(p) \/ FetchOpenCache(p)
  \/ FetchValidateCache(p) \/ FetchCreate(p) \/ FetchGet(p) \/ FetchCopy(p)
  \/ FetchSeek(p) \/ FetchVerify(p) \/ FetchRollback(p) \/ FetchFinal(p)

(* ------------------------------------------------------------------ *)
(* Client::update_device_with_release, Client::install (src/src/lib.rs) *)
(* ------------------------------------------------------------------ *)

\* InstallFlags::OFFLINE and InstallFlags::ALLOW_OLDER, bits of a u16.
OFFLINE == 1
ALLOW_OLDER == 4

\* The flags a caller may pass.
InstallFlags == {OFFLINE, ALLOW_OLDER}

\* flags.contains(flag) and flags | flag, for a flag of one bit
FlagsContain(flags, flag) == (flags \div flag) % 2 = 1
FlagsWith(flags, flag) == IF FlagsContain(flags, flag) THEN flags ELSE flags + flag

\* The releases a caller updates a device with.
UpdateReleases == {"sha1", "local"}

\* The options of the Install call, each under the bit of the flag it
\* stands for: "offline" and "allow-older" are inserted for their flags.
InstallOptions(flags) ==
  (IF FlagsContain(flags, OFFLINE) THEN OFFLINE ELSE 0)
  + (IF FlagsContain(flags, ALLOW_OLDER) THEN ALLOW_OLDER ELSE 0)

\* The Install call, with the file name and the options it carries.
Install(filename, options, ok) == Event("dbus", "Install", filename, options, <<>>, ok)

\* A caller passes a device (with the only-offline flag or not), a release,
\* flags and, or not, a callback; `given` keeps what the caller passed, flags
\* is the parameter, which is mutable.  No signal interrupts the call.
UpdateCall(p) ==
  \E r \in UpdateReleases, cb \in BOOLEAN, only \in BOOLEAN, flags \in InstallFlags :
    Enter(p, [op |-> "update_device_with_release", release |-> r, remote |-> <<>>, cb |-> cb,
              signals |-> FALSE, only_offline |-> only, given |-> flags, flags |-> flags], "u_offline")

\* The first statement, were the flags left as they were passed.
UpdateOffline_AsPassed(p) ==
  /\ pc[p] = "u_offline"
  /\ pc' = [pc EXCEPT ![p] = "f_remote"]
  /\ UNCHANGED <<call, dir, inodes, loc, result, trace, fs0, lvars, pvars>>

\* if device.only_offline() { flags |= InstallFlags::OFFLINE }, then the
\* fetch is called.
UpdateOffline(p) ==
  /\ pc[p] = "u_offline"
  /\ call' = [call EXCEPT ![p].flags = IF call[p].only_offline THEN FlagsWith(@, OFFLINE) ELSE @]
  /\ pc' = [pc EXCEPT ![p] = "f_remote"]
  /\ UNCHANGED <<dir, inodes, loc, result, trace, fs0, lvars, pvars>>

\* The statement after the fetch, were the callback not called.
UpdateFlash_Silent(p) ==
  /\ pc[p] = "u_flash"
  /\ Step(p, "u_install", loc[p], result[p], <<>>, dir, inodes)

\* if let Some(ref mut cb) = callback { cb(FlashEvent::FlashInProgress) };
\* result[p] holds (filename, file), what the fetch returned.
UpdateFlash(p) ==
  /\ pc[p] = "u_flash"
  /\ Step(p, "u_install", loc[p], result[p], Notify(p, "FlashInProgress", 0), dir, inodes)

\* self.install(device, "(user)", &filename, file, flags): the descriptor
\* of the handle, or of the file opened by its name when there is no
\* handle; the options; the Install call.
UpdateInstall(p) ==
  /\ pc[p] = "u_install"
  /\ LET filename == result[p].path
         opened == IF result[p].file.ino = 0 THEN <<Fs("open", filename)>> ELSE <<>>
         options == InstallOptions(call[p].flags)
     IN \/ /\ result[p].file.ino = 0
           /\ Return(p, Err("FirmwareOpen"), <<FsFailed("open", filename)>>, dir, inodes)
        \/ Return(p, Ok(<<>>, NoFile), opened \o <<Install(filename, options, TRUE)>>, dir, inodes)
        \/ Return(p, Err("Call"), opened \o <<Install(filename, options, FALSE)>>, dir, inodes)

(* ------------------------------------------------------------------ *)
(* Remote::update_metadata (src/src/remote.rs)                         *)
(* ------------------------------------------------------------------ *)

\* The guard of update_metadata, were enabled not looked at.
IsDisabled_Never(remote) == FALSE

\* if !self.enabled { return Ok(()) }
IsDisabled(remote) == ~remote.enabled

\* update_file skips the fetch when the validation of the cached metadata
\* is Ok.
MetadataIsCurrent(validation) == ~validation.is_err

\* A caller updates the metadata of one of the remotes the service listed.
MetaCall(p) ==
  \E i \in 1..Len(GetRemotes) :
    Enter(p, [op |-> "update_metadata", release |-> "none",
              remote |-> GetRemotes[i].remote_id, cb |-> FALSE, signals |-> FALSE], "m_enabled")

\* Remote::fetch is entered for `stage` ("file" or "sig") of remote, with locals l.
FetchStage(p, l, remote, stage, evs) ==
  LET target == IF stage = "sig" THEN update_signature(remote, Unwrap(remote.uri))
                ELSE [uri |-> Unwrap(remote.uri),
                      cache |-> local_cache(remote, remote.filename_cache)]
  IN Step(p, "m_remove",
          [l EXCEPT !.remote = Some(remote), !.why = stage,
                         !.uri = target.uri, !.file_path = target.cache.val],
          NoResult, evs, dir, inodes)

\* update_metadata: a disabled remote and a remote without URI are left alone;
\* update_file: the cache path, the unwrap of the checksum, local_cache.exists()
MetaEnabled(p) ==
  /\ pc[p] = "m_enabled"
  /\ LET remote == Unwrap(FindRemote(GetRemotes, call[p].remote))
         cache == local_cache(remote, remote.filename_cache)
     IN IF IsDisabled(remote)
        THEN Return(p, Ok(<<>>, NoFile), <<>>, dir, inodes)
        ELSE IF remote.uri = None
        THEN Return(p, Ok(<<>>, NoFile), <<>>, dir, inodes)
        ELSE IF cache.panic \/ remote.checksum = None
        THEN Return(p, Panicked, <<>>, dir, inodes)
        ELSE IF dir[cache.val] # 0
        THEN Step(p, "m_open", [loc[p] EXCEPT !.remote = Some(remote), !.file_path = cache.val],
                  NoResult, <<Fs("exists", cache.val)>>, dir, inodes)
        ELSE FetchStage(p, loc[p], remote, "file", <<Fs("exists", cache.val)>>)

\* update_file: OpenOptions::new().read(true).open(local_cache)?
MetaOpenCache(p) ==
  /\ pc[p] = "m_open"
  /\ LET path == loc[p].file_path
     IN \/ /\ dir[path] # 0
           /\ Step(p, "m_validate", [loc[p] EXCEPT !.file = [ino |-> dir[path], off |-> 0]],
                   NoResult, <<Fs("open", path)>>, dir, inodes)
        \/ FetchStage(p, loc[p], Unwrap(loc[p].remote), "file", <<FsFailed("open", path)>>)

\* update_file: validate_checksum(&mut file, checksum, checksum_guess_kind(checksum)),
\* then return Ok(None) if checksum_matched.is_ok()
MetaValidate(p) ==
  /\ pc[p] = "m_validate"
  /\ \E fails \in BOOLEAN :
       LET remote == Unwrap(loc[p].remote)
           checksum == Unwrap(remote.checksum)
           content == inodes[loc[p].file.ino]
           data == [bytes |-> ReadFrom(content, loc[p].file.off), fails |-> fails]
           validation == validate_checksum(data, checksum, checksum_guess_kind(checksum))
       IN IF MetadataIsCurrent(validation)
          THEN Return(p, Ok(<<>>, NoFile), <<FsRead(loc[p].file_path, fails)>>, dir, inodes)
          ELSE FetchStage(p, [loc[p] EXCEPT !.file = NoFile], remote, "file",
                          <<FsRead(loc[p].file_path, fails)>>)

\* Remote::fetch: if file.exists() { let _ = remove_file(file) }
MetaRemove(p) ==
  /\ pc[p] = "m_remove"
  /\ LET path == loc[p].file_path
     IN Step(p, "m_create", loc[p], NoResult,
             <<Fs("exists", path)>> \o (IF dir[path] # 0 THEN <<Fs("remove", path)>> ELSE <<>>),
             [dir EXCEPT ![path] = 0], inodes)

\* Remote::fetch: OpenOptions::new().read(true).write(true).create(true).open(file)
MetaCreate(p) ==
  /\ pc[p] = "m_create"
  /\ LET path == loc[p].file_path
         ino == IF dir[path] # 0 THEN dir[path] ELSE FreeInode
     IN \/ Step(p, "m_get", [loc[p] EXCEPT !.download = [ino |-> ino, off |-> 0]], NoResult,
                <<Fs("create", path)>>, [dir EXCEPT ![path] = ino], inodes)
        \/ Return(p, Err("Open"), <<FsFailed("create", path)>>, dir, inodes)

\* The bodies a server may send for a signature.  The library never reads
\* a signature, it hands the file to the service: an empty body and the
\* one-byte bodies stand for all.
Signatures == {body \in Contents : Len(body) <= 1}

\* Remote::fetch: http.get(uri).call()
MetaGet(p) ==
  /\ pc[p] = "m_get"
  /\ \/ \E body \in (IF loc[p].why = "sig" THEN Signatures ELSE Contents) :
          Step(p, "m_copy", [loc[p] EXCEPT !.response = Some(body)], NoResult,
               <<Http(loc[p].uri, body)>>, dir, inodes)
     \/ Return(p, Err("Get"), <<HttpFailed("GET", loc[p].uri)>>, dir, inodes)

\* Remote::fetch: one turn of std::io::copy(&mut resp, &mut file)
MetaCopy(p) ==
  /\ pc[p] = "m_copy"
  /\ LET rest == Unwrap(loc[p].response)
         file == loc[p].download
         path == loc[p].file_path
         written(k) == [inodes EXCEPT ![file.ino] = WriteAt(@, file.off, SubSeq(rest, 1, k))]
     IN \/ \E read \in 1..Min(Len(rest), BufferSize) :
             Step(p, "m_copy",
                  [loc[p] EXCEPT !.response = Some(SubSeq(rest, read + 1, Len(rest))),
                                 !.download.off = @ + read],
                  NoResult, <<Fs("write", path)>>, dir, written(read))
        \/ /\ rest = <<>>
           /\ Step(p, "m_seek", [loc[p] EXCEPT !.response = None], NoResult, <<>>, dir, inodes)
        \/ Return(p, Err("Copy"), <<HttpFailed("read", loc[p].uri)>>, dir, inodes)
        \/ \E read \in 1..Min(Len(rest), BufferSize) : \E k \in 0..(read - 1) :
             Return(p, Err("Copy"), <<FsFailed("write", path)>>, dir, written(k))

\* The end of Remote::fetch, were the signature not fetched after the
\* metadata.
MetaSeek_NoSignature(p) ==
  /\ pc[p] = "m_seek"
  /\ LET path == loc[p].file_path
         file == [loc[p].download EXCEPT !.off = 0]
     IN \/ Step(p, "m_dbus", [loc[p] EXCEPT !.file = file, !.download = NoFile], NoResult,
                <<Fs("seek", path)>>, dir, inodes)
        \/ Return(p, Err("Seek"), <<FsFailed("seek", path)>>, dir, inodes)

\* The end of Remote::fetch, were the file handed over where the copy left
\* it.
MetaSeek_KeepOffset(p) ==
  /\ pc[p] = "m_seek"
  /\ LET path == loc[p].file_path
         file == loc[p].download
     IN \/ /\ loc[p].why = "file"
           /\ FetchStage(p, [loc[p] EXCEPT !.file = file, !.download = NoFile],
                         Unwrap(loc[p].remote), "sig", <<Fs("seek", path)>>)
        \/ /\ loc[p].why = "sig"
           /\ Step(p, "m_dbus", [loc[p] EXCEPT !.sig = file, !.download = NoFile], NoResult,
                   <<Fs("seek", path)>>, dir, inodes)
        \/ Return(p, Err("Seek"), <<FsFailed("seek", path)>>, dir, inodes)

\* Remote::fetch: file.seek(SeekFrom::Start(0)), then Ok(file); after the
\* metadata, update_signature fetches the signature.
MetaSeek(p) ==
  /\ pc[p] = "m_seek"
  /\ LET path == loc[p].file_path
         file == [loc[p].download EXCEPT !.off = 0]
     IN \/ /\ loc[p].why = "file"
           /\ FetchStage(p, [loc[p] EXCEPT !.file = file, !.download = NoFile],
                         Unwrap(loc[p].remote), "sig", <<Fs("seek", path)>>)
        \/ /\ loc[p].why = "sig"
           /\ Step(p, "m_dbus", [loc[p] EXCEPT !.sig = file, !.download = NoFile], NoResult,
                   <<Fs("seek", path)>>, dir, inodes)
        \/ Return(p, Err("Seek"), <<FsFailed("seek", path)>>, dir, inodes)

\* m.append3(remote_id, data, signature): the id of the remote and, of each
\* of the two descriptors, the inode and the offset.
UpdateMetadataCall(remote_id, data, signature, ok) ==
  Event("dbus", "UpdateMetadata", remote_id, 0,
        <<data.ino, data.off, signature.ino, signature.off>>, ok)

\* Client::update_metadata: the UpdateMetadata call with the two files
MetaDbus(p) ==
  /\ pc[p] = "m_dbus"
  /\ LET remote_id == Unwrap(loc[p].remote).remote_id
     IN \/ Return(p, Ok(<<>>, NoFile),
                  <<UpdateMetadataCall(remote_id, loc[p].file, loc[p].sig, TRUE)>>, dir, inodes)
        \/ Return(p, Err("Client"),
                  <<UpdateMetadataCall(remote_id, loc[p].file, loc[p].sig, FALSE)>>, dir, inodes)

\* The steps of an update of the metadata by thread p.
UpdateMetadata(p) ==
  \/ MetaEnabled(p) \/ MetaOpenCache(p) \/ MetaValidate(p) \/ MetaRemove(p)
  \/ MetaCreate(p) \/ MetaGet(p) \/ MetaCopy(p) \/ MetaSeek(p) \/ MetaDbus(p)

(* ------------------------------------------------------------------ *)
(* Specifications                                                      *)
(* ------------------------------------------------------------------ *)

\* One caller thread fetches firmware, one invocation at a time.
Next == FetchCall(1) \/ Fetch(1)

Spec == Init /\ [][Next]_vars

\* One caller thread updates the metadata of remotes, one call at a time.
NextMeta == MetaCall(1) \/ UpdateMetadata(1)

SpecMeta == Init /\ [][NextMeta]_vars

\* One caller thread updates devices, one call at a time.
NextUpdate == UpdateCall(1) \/ UpdateOffline(1) \/ Fetch(1) \/ UpdateFlash(1) \/ UpdateInstall(1)

SpecUpdate == Init /\ [][NextUpdate]_vars

\* A thread that has called nothing yet fetches the firmware of the release
\* of the download remote, without a callback, no signal interrupting it.
RaceCall(p) ==
  /\ pc[p] = "idle"
  /\ Enter(p, [op |-> "fetch", release |-> "sha1", remote |-> <<>>, cb |-> FALSE,
                signals |-> FALSE], "f_remote")

\* Two threads share the client (&self) and fetch the same release, each
\* once, their statements interleaved.
NextRace == RaceCall(1) \/ RaceCall(2) \/ Fetch(1) \/ Fetch(2)

SpecRace == Init /\ [][NextRace]_vars

(* ------------------------------------------------------------------ *)
(* The fetch with and without a callback                               *)
(* ------------------------------------------------------------------ *)

\* The caches a pair of fetches may start from: no file at the cache path
\* of the firmware, or a file of any content.
PairCaches == {None} \cup {Some(content) : content \in Contents}

\* The directory and the inodes of such a cache.
CacheDir(file) == [path \in Paths |-> IF path = FirmwarePath /\ IsSome(file) THEN 1 ELSE 0]
CacheInodes(file) == [n \in Inodes |-> IF n = 1 /\ IsSome(file) THEN Unwrap(file) ELSE <<>>]

\* A release and a cache are drawn; nothing is called yet.
InitPair ==
  /\ \E r \in ReleaseNames, file \in PairCaches :
       /\ input = [f |-> "fetch_firmware_from_release", release |-> r, cache |-> file]
       /\ dir = CacheDir(file)
       /\ inodes = CacheInodes(file)
  /\ pc = [p \in Procs |-> "idle"]
  /\ call = [p \in Procs |-> NoCall]
  /\ loc = [p \in Procs |-> LocInit]
  /\ result = [p \in Procs |-> NoResult]
  /\ trace = [p \in Procs |-> <<>>]
  /\ fs0 = [p \in Procs |-> [path \in Paths |-> None]]
  /\ cancellable = TRUE /\ bus = <<>> /\ listener = NoListener
  /\ output = NoOutput

\* What the service, the server and the file system answered, in order:
\* every event but those handed to the callback and the removal of the
\* file, whose result the code discards.
AnswersOf(events) == SelectSeq(events, LAMBDA e : e.t # "cb" /\ e.op # "remove")

IsPrefix(s, t) == Len(s) <= Len(t) /\ SubSeq(t, 1, Len(s)) = s

\* What a fetch returned and left: the result, the file of the handle, and
\* the cache.
Outcome(p) ==
  [kind |-> result[p].kind, err |-> result[p].err, path |-> result[p].path,
   handle |-> IF result[p].file.ino = 0 THEN None
              ELSE Some([content |-> inodes[result[p].file.ino], off |-> result[p].file.off,
                         linked |-> dir[result[p].path] = result[p].file.ino]),
   cache |-> Snapshot(dir, inodes)]

\* The first fetch of the pair: thread 1 passes a callback, thread 2 none;
\* a signal may interrupt a read.
PairFirst(p) ==
  /\ pc[1] = "idle" /\ pc[2] = "idle"
  /\ Enter(p, [op |-> "fetch", release |-> input.release, remote |-> <<>>, cb |-> (p = 1),
               signals |-> TRUE], "f_remote")

\* The other fetch of the pair: what the first returned and left is kept,
\* the cache is put back as it was, and thread q makes the same call.
PairSecond(q) ==
  /\ pc[3 - q] = "done" /\ pc[q] = "idle"
  /\ output' = [returned |-> TRUE, by |-> 3 - q, val |-> Outcome(3 - q)]
  /\ call' = [call EXCEPT ![q] = [call[3 - q] EXCEPT !.cb = (q = 1)]]
  /\ pc' = [pc EXCEPT ![q] = "f_remote"]
  /\ loc' = [loc EXCEPT ![q] = LocInit]
  /\ result' = [p \in Procs |-> NoResult]
  /\ trace' = [trace EXCEPT ![q] = <<>>]
  /\ fs0' = [fs0 EXCEPT ![q] = fs0[3 - q]]
  /\ dir' = CacheDir(input.cache)
  /\ inodes' = CacheInodes(input.cache)
  /\ UNCHANGED <<input, lvars>>

\* A step of a fetch of the pair.  The second fetch is answered as the
\* first was, call by call: the same replies, bodies and failures.
PairRun(p) ==
  /\ Fetch(p)
  /\ pc[3 - p] = "done" => IsPrefix(AnswersOf(trace'[p]), AnswersOf(trace[3 - p]))

NextPair ==
  \/ PairFirst(1) \/ PairFirst(2) \/ PairSecond(1) \/ PairSecond(2) \/ PairRun(1) \/ PairRun(2)

SpecPair == InitPair /\ [][NextPair]_vars


(* ------------------------------------------------------------------ *)
(* Client::listen_signals (src/src/lib.rs)                             *)
(* ------------------------------------------------------------------ *)

\* The most raw events the service sends.
MaxEvents == 3

\* The most pulls the consumer makes after the end of the sequence.
MaxPulls == 2

\* An entry of an a{sv} dictionary: a key and a value of a D-Bus type
\* (a string in s, a number in n).
Entry(key, ty, str, num) == [key |-> key, ty |-> ty, s |-> str, n |-> num]

\* The body of a message: its signature and, for a dictionary, its entries.
Body(shape, entries) == [shape |-> shape, entries |-> entries]

\* The body of a DeviceRequest the service sends.
RequestBody ==
  Body("a{sv}", { Entry("AppstreamId", "Str", "a", 0), Entry("Created", "U64", "", 1),
                  Entry("Plugin", "Str", "p", 0), Entry("RequestKind", "U32", "", 1),
                  Entry("UpdateMessage", "Str", "m", 0) })

\* A dictionary with a value of another type than the field has, and a key
\* no field has.
MistypedBody ==
  Body("a{sv}", { Entry("Created", "Str", "x", 0), Entry("Flags", "U64", "", 1) })

\* A body that is no dictionary.
MalformedBody == Body("s", {})

\* The body of the three device signals, of Changed and of PropertiesChanged.
DeviceBody == Body("a{sv}", { Entry("DeviceId", "Str", "d", 0) })
EmptyBody == Body("", {})
PropertiesBody == Body("sa{sv}as", { Entry("Status", "U32", "", 1) })

RawEvent(member, body) == [member |-> member, body |-> body]

\* The raw events the service may send.
RawEvents ==
  { RawEvent("Changed", EmptyBody), RawEvent("DeviceAdded", DeviceBody),
    RawEvent("DeviceChanged", DeviceBody), RawEvent("DeviceRemoved", DeviceBody),
    RawEvent("PropertiesChanged", PropertiesBody),
    RawEvent("DeviceRequest", RequestBody), RawEvent("DeviceRequest", MistypedBody),
    RawEvent("DeviceRequest", MalformedBody), RawEvent("Bogus", EmptyBody) }

\* request::Request::default()
RequestDefault ==
  [appstream_id |-> "", created |-> 0, plugin |-> "", request_kind |-> 0,
   update_message |-> ""]

\* The value of the entry with the key, when it is of the type: if let
\* Value::T(value) = value; the field keeps its default otherwise.
StrField(entries, key) ==
  IF \E e \in entries : e.key = key /\ e.ty = "Str"
  THEN (CHOOSE e \in entries : e.key = key /\ e.ty = "Str").s ELSE ""
NumField(entries, key, ty) ==
  IF \E e \in entries : e.key = key /\ e.ty = ty
  THEN (CHOOSE e \in entries : e.key = key /\ e.ty = ty).n ELSE 0

\* The request the loop over the entries of the body fills in.
ReadRequest(entries) ==
  [appstream_id |-> StrField(entries, "AppstreamId"),
   created |-> NumField(entries, "Created", "U64"),
   plugin |-> StrField(entries, "Plugin"),
   request_kind |-> NumField(entries, "RequestKind", "U32"),
   update_message |-> StrField(entries, "UpdateMessage")]

\* Signal::DeviceRequest(Request)
DeviceRequest(request) == [variant |-> "DeviceRequest", request |-> request]

\* signal.body(): Ok for a body that deserializes as HashMap<String, Value>.
BodyIsOk(body) == body.shape = "a{sv}"

\* The closure of filter_map, were a body that does not deserialize to
\* deliver a default request.
FilterMap_DefaultOnError(signal) ==
  CASE signal.member = "DeviceRequest" -> Some(DeviceRequest(RequestDefault))
    [] OTHER -> None

\* The closure of filter_map: the signal an event is delivered as, None for
\* an event that is dropped.  Only DeviceRequest has an arm; the request
\* the loop fills in is left behind and a default one is delivered.
FilterMap(signal) ==
  CASE signal.member = "DeviceRequest" ->
         IF BodyIsOk(signal.body)
         THEN LET request == ReadRequest(signal.body.entries)
              IN Some(DeviceRequest(RequestDefault))
         ELSE None
    [] OTHER -> None

\* The predicate of take_while: cancellable.load(Ordering::SeqCst)
TakeWhile(flag) == flag

\* listen_signals: the connection and the proxy, then the sequence; an
\* error of either is returned in place of the sequence.
ListenCall ==
  /\ listener.state = "idle"
  /\ \/ listener' = [listener EXCEPT !.state = "listening"]
     \/ listener' = [listener EXCEPT !.state = "failed"]
  /\ UNCHANGED <<cancellable, bus, cvars, pvars>>

\* The service sends a raw event to the subscribed proxy.
Arrive ==
  /\ listener.state \in {"listening", "ended"}
  /\ Len(bus) + Len(listener.received) < MaxEvents
  /\ \E signal \in RawEvents : bus' = Append(bus, signal)
  /\ UNCHANGED <<cancellable, listener, cvars, pvars>>

\* Another thread stores a value into the flag.
Store ==
  /\ cancellable' = ~cancellable
  /\ UNCHANGED <<bus, listener, cvars, pvars>>

\* The consumer's pull, were it to look at the flag without an event.
Receive_Polling ==
  /\ listener.state = "listening"
  /\ IF bus = <<>>
     THEN /\ ~cancellable
          /\ listener' = [listener EXCEPT !.loads = Append(@, cancellable), !.state = "ended"]
          /\ bus' = bus
     ELSE /\ listener' =
               [listener EXCEPT
                  !.received = Append(@, Head(bus)),
                  !.loads = Append(@, cancellable),
                  !.state = IF cancellable THEN "listening" ELSE "ended",
                  !.yielded = IF cancellable THEN @ \o FilterMap(Head(bus)) ELSE @]
          /\ bus' = Tail(bus)
  /\ UNCHANGED <<cancellable, cvars, pvars>>

\* The consumer's pull, were filter_map applied before take_while: the flag
\* is loaded for the events filter_map lets through and for no other.
Receive_FilterFirst ==
  /\ listener.state = "listening"
  /\ bus # <<>>
  /\ LET signal == Head(bus)
         flag == cancellable
     IN listener' =
          IF FilterMap(signal) = None
          THEN [listener EXCEPT !.received = Append(@, signal)]
          ELSE [listener EXCEPT
                  !.received = Append(@, signal),
                  !.loads = Append(@, flag),
                  !.state = IF TakeWhile(flag) THEN "listening" ELSE "ended",
                  !.yielded = IF TakeWhile(flag) THEN @ \o FilterMap(signal) ELSE @]
  /\ bus' = Tail(bus)
  /\ UNCHANGED <<cancellable, cvars, pvars>>

\* The consumer's pull, blocked in receive_all_signals until an event is
\* there: take_while loads the flag and ends the sequence or hands the
\* event to filter_map, whose Some is yielded; on None the pull goes on.
Receive ==
  /\ listener.state = "listening"
  /\ bus # <<>>
  /\ LET signal == Head(bus)
         flag == cancellable
     IN listener' =
          [listener EXCEPT
             !.received = Append(@, signal),
             !.loads = Append(@, flag),
             !.state = IF TakeWhile(flag) THEN "listening" ELSE "ended",
             !.yielded = IF TakeWhile(flag) THEN @ \o FilterMap(signal) ELSE @]
  /\ bus' = Tail(bus)
  /\ UNCHANGED <<cancellable, cvars, pvars>>

\* A pull after the end, were the predicate of take_while evaluated again
\* (as a filter would): the sequence resumes when the flag lets it.
ReceiveEnded_Resumes ==
  /\ listener.state = "ended"
  /\ Len(listener.ends) < MaxPulls
  /\ LET found == TakeWhile(cancellable) /\ bus # <<>>
     IN IF bus # <<>> /\ TakeWhile(cancellable)
        THEN /\ listener' =
                  [listener EXCEPT
                     !.received = Append(@, Head(bus)),
                     !.loads = Append(@, cancellable),
                     !.state = "listening",
                     !.yielded = @ \o FilterMap(Head(bus)),
                     !.ends = Append(@, found)]
             /\ bus' = Tail(bus)
        ELSE /\ listener' = [listener EXCEPT !.ends = Append(@, found)]
             /\ bus' = bus
  /\ UNCHANGED <<cancellable, cvars, pvars>>

\* A pull after the end of the sequence.  TakeWhile::next returns None at
\* once when its own `flag` field is set (it was set when the predicate
\* returned false): neither the inner iterator nor the predicate is called.
\* Whether the pull found an event waiting and the flag at the value that
\* keeps the sequence going is recorded.
ReceiveEnded ==
  /\ listener.state = "ended"
  /\ Len(listener.ends) < MaxPulls
  /\ listener' = [listener EXCEPT !.ends = Append(@, TakeWhile(cancellable) /\ bus # <<>>)]
  /\ UNCHANGED <<cancellable, bus, cvars, pvars>>

\* The caller makes the flag with either value, then listens.
InitListen ==
  /\ InitCalls
  /\ cancellable \in BOOLEAN /\ bus = <<>> /\ listener = NoListener
  /\ input = NoInput /\ output = NoOutput

NextListen == ListenCall \/ Arrive \/ Store \/ Receive \/ ReceiveEnded

SpecListen == InitListen /\ [][NextListen]_vars

(* ------------------------------------------------------------------ *)
(* The checksum engine called on its own (src/src/common.rs)           *)
(* ------------------------------------------------------------------ *)

\* The longest text that is no digest, and the longest list of checksums.
MaxTextLen == 129
MaxSums == 3

\* The algorithms of crypto_hash a caller may name.
Algorithms == {"MD5", "SHA1", "SHA256", "SHA512"}

\* The texts a caller may pass as a checksum: the digests of every content
\* in lower and in upper case, and for each length a text that is no digest.
Texts ==
  {HexDigest(alg, content) : alg \in Algorithms, content \in Contents}
  \cup {UpperCase(HexDigest(alg, content)) : alg \in Algorithms, content \in Contents}
  \cup {[GarbageText EXCEPT !.len = n] : n \in 0..MaxTextLen}

\* The checksums of the lists a release may carry.
SumTexts ==
  {HexDigest(alg, Firmware) : alg \in Algorithms}
  \cup {HexDigest(alg, <<>>) : alg \in Algorithms \ {"MD5"}}
  \cup {GarbageText, [GarbageText EXCEPT !.len = 0]}

RECURSIVE ListsUpTo(_, _)
ListsUpTo(set, n) ==
  IF n = 0 THEN {<<>>}
  ELSE LET shorter == ListsUpTo(set, n - 1)
       IN shorter \cup {Append(l, x) : l \in {t \in shorter : Len(t) = n - 1}, x \in set}

\* The calls a caller may make.
Inputs ==
  {[f |-> "checksum_guess_kind", checksum |-> t] : t \in Texts}
  \cup {[f |-> "find_best_checksum", checksums |-> l] : l \in ListsUpTo(SumTexts, MaxSums)}
  \cup {[f |-> "validate_checksum", data |-> [bytes |-> c, fails |-> b], checksum |-> t,
         alg |-> a] : c \in Contents, b \in BOOLEAN, t \in Texts, a \in Algorithms}

Returned(value) == [returned |-> TRUE, val |-> value]

GuessKind ==
  /\ input.f = "checksum_guess_kind" /\ ~output.returned
  /\ output' = Returned(checksum_guess_kind(input.checksum))
  /\ UNCHANGED <<input, cvars, lvars>>

FindBest ==
  /\ input.f = "find_best_checksum" /\ ~output.returned
  /\ output' = Returned(find_best_checksum(input.checksums))
  /\ UNCHANGED <<input, cvars, lvars>>

Validate ==
  /\ input.f = "validate_checksum" /\ ~output.returned
  /\ output' = Returned(validate_checksum(input.data, input.checksum, input.alg))
  /\ UNCHANGED <<input, cvars, lvars>>

InitSums ==
  /\ InitCalls
  /\ cancellable = TRUE /\ bus = <<>> /\ listener = NoListener
  /\ input \in Inputs /\ output = NoOutput

NextSums == GuessKind \/ FindBest \/ Validate

SpecSums == InitSums /\ [][NextSums]_vars

(* ------------------------------------------------------------------ *)
(* The remote resolver called on its own (src/src/remote.rs)           *)
(* ------------------------------------------------------------------ *)

\* "h://c": where a remote may host its firmware
BaseUri == <<"h", ":", "/", "/", "c">>

\* The values of firmware_base_uri: unset, and the host with no, one and
\* two trailing '/'.
BaseUris == {None, Some(BaseUri), Some(BaseUri \o <<"/">>), Some(BaseUri \o <<"/", "/">>)}

\* The values of uri: unset, "h://s/d/m.gz", "h://s/m.gz", "h://s/d/" and
\* "m.gz", a file name with an empty parent.
RemoteUris ==
  {None, Some(MetadataUri), Some(SubSeq(MetadataUri, 1, 6) \o SubSeq(MetadataUri, 9, 12)),
   Some(SubSeq(MetadataUri, 1, 8)), Some(SubSeq(MetadataUri, 9, 12))}

\* The references of a release: "fw.cab", "h://b/fw.cab", "h://b/p/fw.cab",
\* "p/fw.cab", "h://b/p/" and two without basename, "" and "/".
References ==
  {FwCab, <<"h", ":", "/", "/", "b", "/">> \o FwCab,
   <<"h", ":", "/", "/", "b", "/", "p", "/">> \o FwCab, <<"p", "/">> \o FwCab,
   <<"h", ":", "/", "/", "b", "/", "p", "/">>, <<>>, <<"/">>}

\* The variants of KeyringKind.
Keyrings == {"Unknown", "None", "GPG", "PKCS7", "JCAT"}

\* The values of filename_cache: "/v/m.gz" and "m.gz".
FilenameCaches == {FilenameCache, SubSeq(FilenameCache, 4, 7)}

\* The calls of the resolver.
UriInputs ==
  {[f |-> "firmware_uri",
    remote |-> [DownloadRemote EXCEPT !.firmware_base_uri = base, !.uri = uri],
    url |-> url] : base \in BaseUris, uri \in RemoteUris, url \in References}
  \cup {[f |-> "update_signature",
         remote |-> [DownloadRemote EXCEPT !.keyring = keyring, !.filename_cache = cache],
         url |-> Unwrap(uri)] :
          keyring \in Keyrings, cache \in FilenameCaches, uri \in RemoteUris \ {None}}

FirmwareUri ==
  /\ input.f = "firmware_uri" /\ ~output.returned
  /\ output' = Returned(firmware_uri(input.remote, input.url))
  /\ UNCHANGED <<input, cvars, lvars>>

UpdateSignature ==
  /\ input.f = "update_signature" /\ ~output.returned
  /\ output' = Returned(update_signature(input.remote, input.url))
  /\ UNCHANGED <<input, cvars, lvars>>

InitUri ==
  /\ InitCalls
  /\ cancellable = TRUE /\ bus = <<>> /\ listener = NoListener
  /\ input \in UriInputs /\ output = NoOutput

NextUri == FirmwareUri \/ UpdateSignature

SpecUri == InitUri /\ [][NextUri]_vars

(* ------------------------------------------------------------------ *)
(* What a completed operation shows                                    *)
(* ------------------------------------------------------------------ *)

\* Thread p ran fetch_firmware_from_release, which has returned.
Fetched(p) == pc[p] = "done" /\ call[p].op = "fetch"

\* Thread p ran Remote::update_metadata, which has returned.
Updated(p) == pc[p] = "done" /\ call[p].op = "update_metadata"

TheRelease(p) == Releases[call[p].release]

\* GetRemotes answered and listed the remote of the release.
Listed(p) ==
  /\ Len(trace[p]) > 0
  /\ trace[p][1] = Dbus("GetRemotes")
  /\ IsSome(FindRemote(GetRemotes, TheRelease(p).remote_id))

TheRemote(p) == Unwrap(FindRemote(GetRemotes, TheRelease(p).remote_id))

\* The release has a checksum of SHA512, SHA256 or SHA1 length.
HasStrongChecksum(p) ==
  \E i \in 1..Len(TheRelease(p).checksums) : TheRelease(p).checksums[i].len \in {40, 64, 128}

\* The fetch of thread p is one of a Download remote with a usable checksum.
Downloadable(p) == Listed(p) /\ TheRemote(p).kind = "Download" /\ HasStrongChecksum(p)

Best(p) == Unwrap(find_best_checksum(TheRelease(p).checksums))

\* The content hashes to the checksum.
Hashes(content, best) == HexDigest(best.alg, content) = best.text

\* The file (an Option of a content) exists and hashes to the checksum.
Valid(file, best) == IsSome(file) /\ Hashes(Unwrap(file), best)

\* The file exists and does not hash to the checksum.
Stale(file, best) == IsSome(file) /\ ~Hashes(Unwrap(file), best)

\* The content of a path now, None when it does not exist.
Now(path) == Snapshot(dir, inodes)[path]

\* The entries of a kind of the trace of thread p.
Events(p, t) == SelectSeq(trace[p], LAMBDA e : e.t = t)
Gets(p) == SelectSeq(trace[p], LAMBDA e : e.t = "http" /\ e.op = "GET")

\* Nothing thread p called failed.
AllOk(p) == \A i \in 1..Len(trace[p]) : trace[p][i].ok

\* The GET of thread p was answered with a body that does not hash to the
\* best checksum.
GotBadBody(p) ==
  /\ Downloadable(p)
  /\ \E i \in 1..Len(trace[p]) :
       /\ trace[p][i].t = "http" /\ trace[p][i].op = "GET" /\ trace[p][i].ok
       /\ ~Hashes(trace[p][i].data, Best(p))

(* ------------------------------------------------------------------ *)
(* Claims                                                              *)
(* ------------------------------------------------------------------ *)

\* C1: after every completed fetch for a Download remote (starting from an
\* empty cache, one invocation at a time, whatever failed), the cache file
\* is absent or its content hashes to the best checksum of the release.
C1_CacheAbsentOrValid ==
  \A p \in Procs :
    Fetched(p) /\ Downloadable(p) =>
      Now(FirmwarePath) = None \/ Valid(Now(FirmwarePath), Best(p))

\* C2: when the download ran without any error and the body does not hash
\* to the best checksum, the fetch returns FirmwareChecksumMismatch.
C2_MismatchIsReported ==
  \A p \in Procs :
    Fetched(p) /\ GotBadBody(p) /\ AllOk(p) => result[p] = Err("FirmwareChecksumMismatch")

\* C3: when the downloaded body does not hash to the best checksum, the
\* cache path does not exist after the fetch has returned.
C3_MismatchRollsBack ==
  \A p \in Procs : Fetched(p) /\ GotBadBody(p) => dir[FirmwarePath] = 0

\* C4: a GET that fails makes the fetch return FirmwareGet, a copy that
\* fails FirmwareCopy, and either error is returned right after the removal
\* of the cache file: the cache path does not exist afterwards.
C4_FailedDownloadRemovesFile ==
  \A p \in Procs :
    Fetched(p) =>
      /\ (\E i \in 1..Len(trace[p]) : trace[p][i] = HttpFailed("GET", trace[p][i].path))
           => result[p] = Err("FirmwareGet")
      /\ (\E i \in 1..Len(trace[p]) :
            trace[p][i] \in {HttpFailed("read", trace[p][i].path), FsFailed("write", FirmwarePath)})
           => result[p] = Err("FirmwareCopy")
      /\ result[p].err \in {"FirmwareGet", "FirmwareCopy"} =>
           /\ dir[FirmwarePath] = 0
           /\ trace[p][Len(trace[p])] = Fs("remove", FirmwarePath)

\* C4's case: the copy failed in a fetch that found a file at the cache path.
C4_Witness ==
  \E p \in Procs :
    /\ Fetched(p) /\ result[p] = Err("FirmwareCopy")
    /\ IsSome(fs0[p][FirmwarePath]) /\ dir[FirmwarePath] = 0

\* C5: when the cache file exists and hashes to the best checksum, and
\* opening, reading and rewinding it do not fail, the fetch issues no HTTP
\* request, delivers no event to the callback and returns the path with a
\* handle on the file that was there, its content untouched.
C5_CacheHitNoDownload ==
  \A p \in Procs :
    Fetched(p) /\ Downloadable(p) /\ Valid(fs0[p][FirmwarePath], Best(p)) /\ AllOk(p) =>
      /\ Events(p, "http") = <<>> /\ Events(p, "cb") = <<>>
      /\ result[p].kind = "Ok" /\ result[p].path = FirmwarePath
      /\ result[p].file.ino # 0 /\ result[p].file.ino = dir[FirmwarePath]
      /\ result[p].file.off = 0
      /\ Now(FirmwarePath) = fs0[p][FirmwarePath]

\* C5's case: a fetch that found a valid cache file and read it.
C5_Witness ==
  \E p \in Procs :
    /\ Fetched(p) /\ Downloadable(p) /\ Valid(fs0[p][FirmwarePath], Best(p)) /\ AllOk(p)
    /\ call[p].cb /\ result[p].kind = "Ok"

\* C6: when the cache file exists and does not hash to the best checksum
\* (and nothing fails), the fetch issues exactly one GET, and when it
\* succeeds the cache file hashes to the best checksum.
C6_StaleCacheOneDownload ==
  \A p \in Procs :
    Fetched(p) /\ Downloadable(p) /\ Stale(fs0[p][FirmwarePath], Best(p)) /\ AllOk(p) =>
      /\ Len(Gets(p)) = 1
      /\ result[p].kind = "Ok" => Valid(Now(FirmwarePath), Best(p))

\* C7: for a Download remote and a release whose checksums are all of MD5
\* length (or that has none), the fetch returns ReleaseWithoutChecksums
\* having issued no HTTP request, made no file system call and left every
\* cache file as it was.
C7_NoChecksumNoFetch ==
  \A p \in Procs :
    Fetched(p) /\ Listed(p) /\ TheRemote(p).kind = "Download" /\ ~HasStrongChecksum(p) =>
      /\ result[p] = Err("ReleaseWithoutChecksums")
      /\ Events(p, "http") = <<>> /\ Events(p, "fs") = <<>> /\ Events(p, "cb") = <<>>
      /\ Snapshot(dir, inodes) = fs0[p]

\* C7's case: an MD5-only release is refused while a cache file exists.
C7_Witness ==
  \E p \in Procs :
    /\ Fetched(p) /\ Listed(p) /\ call[p].release = "md5"
    /\ result[p] = Err("ReleaseWithoutChecksums") /\ IsSome(Now(FirmwarePath))

\* C8: for a Local or Directory remote whose local path is defined (the
\* cache file name has a parent, the URI has the 7 bytes of "file://"), the
\* fetch returns that path and no handle, having called nothing but
\* GetRemotes: no HTTP request, no file system call, no checksum selection,
\* no callback; a release without usable checksum makes no difference.
C8_LocalShortCircuit ==
  \A p \in Procs :
    Fetched(p) /\ Listed(p) /\ TheRemote(p).kind \in {"Local", "Directory"} =>
      /\ trace[p] = <<Dbus("GetRemotes")>>
      /\ Snapshot(dir, inodes) = fs0[p]
      /\ result[p].kind \in {"Ok", "Panic"}
      /\ result[p].file = NoFile
      /\ call[p].release = "local" =>
           result[p] = Ok(<<"/", "v", "/", "f", "w", ".", "c", "a", "b">>, NoFile)
      /\ call[p].release = "dir" =>
           result[p] = Ok(<<"/", "d", "/", "f", "w", ".", "c", "a", "b">>, NoFile)
      /\ result[p].kind = "Panic" <=> call[p].release \in {"dirshort", "bare"}

\* C8's case: the release of a Directory remote, with an MD5 checksum only
\* and a callback, is resolved to its local path.
C8_Witness ==
  \E p \in Procs :
    /\ Fetched(p) /\ call[p].release = "dir" /\ call[p].cb
    /\ result[p].kind = "Ok" /\ ~HasStrongChecksum(p)

\* C9: update_metadata on a disabled remote returns Ok having issued no
\* HTTP request, made no file system call and no UpdateMetadata call.
C9_DisabledRemoteNoUpdate ==
  \A p \in Procs :
    Updated(p) /\ ~Unwrap(FindRemote(GetRemotes, call[p].remote)).enabled =>
      /\ result[p] = Ok(<<>>, NoFile)
      /\ trace[p] = <<>>
      /\ Snapshot(dir, inodes) = fs0[p]

\* C9's case: the update of the disabled download remote has returned,
\* while the metadata of another remote is cached.
C9_Witness ==
  \E p \in Procs :
    /\ Updated(p) /\ call[p].remote = IdOff /\ result[p].kind = "Ok"
    /\ IsSome(Now(MetadataPath(DownloadRemote)))

\* C10 as stated: a fetch for a release of a disabled remote issues no HTTP
\* request and makes no file system call.
C10_DisabledRemoteNoFetch ==
  \A p \in Procs :
    Fetched(p) /\ Listed(p) /\ ~TheRemote(p).enabled =>
      Events(p, "http") = <<>> /\ Events(p, "fs") = <<>>

\* C10 as amended: the fetch does not look at enabled.  For a disabled
\* remote it calls nothing but GetRemotes only when the remote is Local or
\* Directory; for a disabled Download remote and a usable checksum it looks
\* for the cache file and, finding none and nothing failing, issues one GET.
C10_OnlyTheKindShortCircuits ==
  \A p \in Procs :
    Fetched(p) /\ Listed(p) /\ ~TheRemote(p).enabled =>
      /\ TheRemote(p).kind \in {"Local", "Directory"} => trace[p] = <<Dbus("GetRemotes")>>
      /\ Downloadable(p) =>
           /\ Len(trace[p]) >= 3 /\ trace[p][3] = Fs("exists", FirmwarePath)
           /\ fs0[p][FirmwarePath] = None /\ AllOk(p) =>
                Len(Gets(p)) = 1 /\ result[p].kind = "Ok"

\* C10's case: the firmware of a release of the disabled download remote
\* was downloaded.
C10_Witness ==
  \E p \in Procs :
    /\ Fetched(p) /\ call[p].release = "off" /\ AllOk(p)
    /\ Len(Gets(p)) = 1 /\ result[p].kind = "Ok"

(* ------------------------------------------------------------------ *)
(* What the sequence of signals shows                                  *)
(* ------------------------------------------------------------------ *)

\* The member names that have a Signal variant.
SignalNames ==
  {"Changed", "DeviceAdded", "DeviceChanged", "DeviceRemoved", "DeviceRequest",
   "PropertiesChanged"}

\* The events received that did not end the sequence, in order.
Passed ==
  IF listener.state = "ended"
  THEN SubSeq(listener.received, 1, Len(listener.received) - 1)
  ELSE listener.received

\* The event has a Signal variant and a body of the shape of its member.
WellFormed(signal) ==
  /\ signal.member \in SignalNames
  /\ signal.member = "DeviceRequest" => BodyIsOk(signal.body)

\* The DeviceRequest events passed whose body is a dictionary, and the
\* DeviceRequest signals yielded.
GoodRequests == SelectSeq(Passed, LAMBDA e : e.member = "DeviceRequest" /\ BodyIsOk(e.body))
YieldedRequests == SelectSeq(listener.yielded, LAMBDA y : y.variant = "DeviceRequest")

\* C11: every pull that observes the flag false leaves the sequence going,
\* and the pull that observes it true ends the sequence.
C11_EndsWhenFlagTrue ==
  LET n == Len(listener.loads)
  IN /\ \A i \in 1..(n - 1) : listener.loads[i] = FALSE
     /\ n > 0 => (listener.state = "ended" <=> listener.loads[n] = TRUE)

\* C12: the signals yielded are, in arrival order, the events received
\* before the end of the sequence whose member has a Signal variant (and
\* whose body has the shape of the member); the others are left out.
C12_OmitsExactlyUnrecognized ==
  LET kept == SelectSeq(Passed, WellFormed)
  IN /\ Len(listener.yielded) = Len(kept)
     /\ \A i \in 1..Len(kept) : listener.yielded[i].variant = kept[i].member

\* C13: each event received before the end of the sequence whose member is
\* one of the six names is delivered as the Signal variant of that name.
C13_VariantOfTheSameName ==
  \A i \in 1..Len(Passed) :
    WellFormed(Passed[i]) =>
      \E j \in 1..Len(listener.yielded) : listener.yielded[j].variant = Passed[i].member

\* C14: a DeviceRequest whose body is no dictionary yields nothing and ends
\* nothing: the sequence ends only on a load of the flag, it never fails
\* once returned, and the DeviceRequest signals yielded are as many as the
\* DeviceRequest events with a dictionary received before the end, so the
\* well-formed ones that arrive after a malformed one are delivered.
C14_MalformedIsDropped ==
  listener.state \in {"listening", "ended"} =>
    /\ Len(YieldedRequests) = Len(GoodRequests)
    /\ listener.state = "ended" =>
         ~TakeWhile(listener.loads[Len(listener.loads)])

\* C14's case: a well-formed DeviceRequest is delivered after a malformed
\* one was dropped, and the sequence goes on.
C14_Witness ==
  /\ listener.state = "listening"
  /\ Len(listener.received) = 2
  /\ listener.received[1] = RawEvent("DeviceRequest", MalformedBody)
  /\ listener.received[2] = RawEvent("DeviceRequest", RequestBody)
  /\ Len(listener.yielded) = 1

\* C15: the request of each DeviceRequest signal yielded has the values of
\* the AppstreamId, Created, Plugin, RequestKind and UpdateMessage entries
\* of the body of its event.
C15_RequestCarriesTheBody ==
  /\ Len(YieldedRequests) = Len(GoodRequests)
  /\ \A i \in 1..Len(GoodRequests) :
       GoodRequests[i].body = RequestBody =>
         YieldedRequests[i].request =
           [appstream_id |-> "a", created |-> 1, plugin |-> "p", request_kind |-> 1,
            update_message |-> "m"]

\* C16: the flag is loaded once for each raw event received and never
\* without one; a store into the flag alone changes nothing of the
\* sequence, and the sequence ends only in a step that receives an event.
C16_FlagReadOncePerEvent ==
  /\ [](Len(listener.loads) = Len(listener.received))
  /\ [][/\ cancellable' # cancellable => listener' = listener
        /\ listener.state # "ended" /\ listener'.state = "ended" =>
             Len(listener'.received) = Len(listener.received) + 1]_vars

\* C16's case: the flag was stored into while the consumer was blocked, and
\* the sequence ended on the event received after that.
C16_Witness ==
  /\ listener.state = "ended"
  /\ listener.loads = <<TRUE, FALSE>>
  /\ bus # <<>>


(* ------------------------------------------------------------------ *)
(* The checksum engine                                                 *)
(* ------------------------------------------------------------------ *)

BestReturned == input.f = "find_best_checksum" /\ output.returned

\* The entries of the list with a length of lens, in input order.
EntriesOf(checksums, lens) == {i \in 1..Len(checksums) : checksums[i].len \in lens}
FirstOf(idx) == CHOOSE x \in idx : \A y \in idx : x <= y

\* The lengths guessed to be SHA1: 40 and every length no algorithm has.
Sha1Guessed == (0..MaxTextLen) \ {32, 64, 128}

\* The answer that prefers a length of 128 to one of 64 to one of sha1lens,
\* and takes the first entry of the preferred length.
Preferred(checksums, sha1lens) ==
  IF EntriesOf(checksums, {128}) # {}
  THEN Some([text |-> checksums[FirstOf(EntriesOf(checksums, {128}))], alg |-> "SHA512"])
  ELSE IF EntriesOf(checksums, {64}) # {}
  THEN Some([text |-> checksums[FirstOf(EntriesOf(checksums, {64}))], alg |-> "SHA256"])
  ELSE Some([text |-> checksums[FirstOf(EntriesOf(checksums, sha1lens))], alg |-> "SHA1"])

\* C17, as stated: find_best_checksum returns the first entry of length 128
\* if the list has one, otherwise the first of length 64 if it has one,
\* otherwise the first of length 40.  Violated: with no entry of length 128
\* or 64, an entry of a length no algorithm has that stands before the entry
\* of length 40 is returned in its place.
C17_FirstOfSha1Length ==
  (BestReturned /\ EntriesOf(input.checksums, {128, 64, 40}) # {})
    => output.val = Preferred(input.checksums, {40})

\* C17, amended: find_best_checksum returns the first entry of length 128 if
\* the list has one, otherwise the first of length 64 if it has one,
\* otherwise the first entry guessed to be SHA1, which is one of length 40
\* or of a length no algorithm has; the lengths present decide the kind,
\* whatever their order.
C17_FirstOfPreferredKind ==
  (BestReturned /\ EntriesOf(input.checksums, {128, 64} \cup Sha1Guessed) # {})
    => output.val = Preferred(input.checksums, Sha1Guessed)

\* A list that holds all three kinds, the preferred one last, and two
\* entries of it: the first of the two is returned.
C17_Witness ==
  /\ BestReturned
  /\ Len(input.checksums) = 3
  /\ input.checksums[1].len = 40
  /\ input.checksums[2].len = 128 /\ input.checksums[3].len = 128
  /\ input.checksums[2] # input.checksums[3]
  /\ output.val = Some([text |-> input.checksums[2], alg |-> "SHA512"])

\* C18, as stated: find_best_checksum returns none whenever every entry has
\* length 32 or a length other than 32, 40, 64 and 128, and never returns an
\* entry of such a length.  Violated: the entry of an unrecognized length is
\* guessed SHA1 and returned.
C18_NoneForUnrecognized ==
  BestReturned =>
    /\ EntriesOf(input.checksums, {40, 64, 128}) = {} => output.val = None
    /\ IsSome(output.val) => Unwrap(output.val).text.len \in {40, 64, 128}

\* C18, amended: find_best_checksum returns none exactly when every entry
\* has length 32 (an empty list included); an entry of a length other than
\* 32, 40, 64 and 128 is returned, as SHA1, when the list has an entry of
\* such a length and none of length 128, 64 or, before it, 40.
C18_NoneExactlyForMd5 ==
  BestReturned =>
    /\ output.val = None <=> \A i \in 1..Len(input.checksums) : input.checksums[i].len = 32
    /\ (IsSome(output.val) /\ Unwrap(output.val).text.len \notin {40, 64, 128})
         => /\ Unwrap(output.val).alg = "SHA1"
            /\ EntriesOf(input.checksums, {128, 64}) = {}
            /\ \A i \in EntriesOf(input.checksums, {40}) :
                 \E j \in 1..(i - 1) : input.checksums[j] = Unwrap(output.val).text

\* A list of MD5 digests only, for which none is returned.
C18_Witness ==
  /\ BestReturned
  /\ Len(input.checksums) = 2
  /\ \A i \in 1..2 : input.checksums[i].len = 32
  /\ output.val = None

\* C19: checksum_guess_kind answers for every text, and by its length alone:
\* a text of the length of the digests of MD5, SHA1, SHA256 or SHA512 is of
\* that kind, whatever it holds, and a text of any other length is SHA1.
C19_KindByLength ==
  (input.f = "checksum_guess_kind" /\ output.returned) =>
    /\ output.val \in Algorithms
    /\ IF input.checksum.len \in {32, 40, 64, 128}
       THEN HexLen(output.val) = input.checksum.len
       ELSE output.val = "SHA1"

\* A text of the longest length tried, which no algorithm has.
C19_Witness ==
  /\ input.f = "checksum_guess_kind" /\ output.returned
  /\ input.checksum.len = MaxTextLen
  /\ output.val = "SHA1"

\* C20: for a stream that can be read to its end, validate_checksum returns
\* Ok(true) when the expected text is the lowercase hex digest of the whole
\* content under the algorithm given, and Ok(false), not an error, for every
\* other expected text: the same digits in upper case, the digest under
\* another algorithm, the digest of other content.
C20_TrueExactlyForTheDigest ==
  (input.f = "validate_checksum" /\ output.returned /\ ~input.data.fails) =>
    /\ ~output.val.is_err
    /\ output.val.val <=>
         /\ input.checksum.alg = input.alg
         /\ input.checksum.of = input.data.bytes
         /\ ~input.checksum.upper

\* The digest of the content in upper case is refused, as a normal result.
C20_Witness ==
  /\ input.f = "validate_checksum" /\ output.returned /\ ~input.data.fails
  /\ input.data.bytes = Firmware
  /\ input.checksum = UpperCase(HexDigest(input.alg, Firmware))
  /\ output.val = [is_err |-> FALSE, val |-> FALSE]


(* ------------------------------------------------------------------ *)
(* The remote resolver                                                 *)
(* ------------------------------------------------------------------ *)

UriReturned == input.f = "firmware_uri" /\ output.returned

\* What follows the last '/' of a text, and what precedes it.
LastSegment(s) == SubSeq(s, LastIndexOf(s, "/") + 1, Len(s))
DirPortion(s) == SubSeq(s, 1, LastIndexOf(s, "/") - 1)

\* The text ends with the name of a file, not with a '/'.
NamesAFile(s) == s # <<>> /\ ~EndsWith(s, "/")

\* C21: with firmware_base_uri set, firmware_uri returns the base URI less
\* one trailing '/', then '/', then the basename of the reference, for a
\* bare file name and for a reference with a host and a path alike; nothing
\* of the reference but its basename is in the result.
C21_BaseAndBasename ==
  (UriReturned /\ IsSome(input.remote.firmware_base_uri)) =>
    LET base == StripSlash(Unwrap(input.remote.firmware_base_uri))
    IN /\ NamesAFile(input.url)
            => output.val = Value(base \o <<"/">> \o LastSegment(input.url))
       /\ ~output.val.panic
            => /\ SubSeq(output.val.val, 1, Len(base) + 1) = base \o <<"/">>
               /\ ~Contains(SubSeq(output.val.val, Len(base) + 2, Len(output.val.val)), "/")

\* The base "h://c/" and the reference "h://b/fw.cab" give "h://c/fw.cab".
C21_Witness ==
  /\ UriReturned
  /\ input.remote.firmware_base_uri = Some(BaseUri \o <<"/">>)
  /\ input.url = <<"h", ":", "/", "/", "b", "/">> \o FwCab
  /\ output.val = Value(BaseUri \o <<"/">> \o FwCab)

\* C22: with no firmware_base_uri and a reference without '/', firmware_uri
\* returns the directory of the metadata URI, one '/', and the reference,
\* for a metadata URI that names a file under a directory.
C22_DirectoryAndReference ==
  ( /\ UriReturned
    /\ input.remote.firmware_base_uri = None
    /\ ~Contains(input.url, "/")
    /\ IsSome(input.remote.uri)
    /\ NamesAFile(Unwrap(input.remote.uri)) /\ Contains(Unwrap(input.remote.uri), "/") )
    => output.val = Value(DirPortion(Unwrap(input.remote.uri)) \o <<"/">> \o input.url)

\* The URI "h://s/d/m.gz" and the reference "fw.cab" give "h://s/d/fw.cab".
C22_Witness ==
  /\ UriReturned
  /\ input.remote.firmware_base_uri = None
  /\ input.remote.uri = Some(MetadataUri)
  /\ input.url = FwCab
  /\ output.val = Value(SubSeq(MetadataUri, 1, 8) \o FwCab)

\* C28: the signature is requested from the metadata URI with a suffix and
\* cached under the name of the metadata cache file with the same suffix,
\* beside it: .jcat for JCAT, .p7b for PKCS7, .asc for GPG, None and Unknown.
C28_SignatureSuffix ==
  (input.f = "update_signature" /\ output.returned) =>
    LET suffix == CASE input.remote.keyring = "JCAT" -> <<".", "j", "c", "a", "t">>
                    [] input.remote.keyring = "PKCS7" -> <<".", "p", "7", "b">>
                    [] input.remote.keyring \in {"GPG", "None", "Unknown"} -> <<".", "a", "s", "c">>
        metadata == local_cache(input.remote, input.remote.filename_cache)
    IN /\ output.val.uri = input.url \o suffix
       /\ ~output.val.cache.panic
       /\ output.val.cache.val = metadata.val \o suffix
       /\ DirPortion(output.val.cache.val) = DirPortion(metadata.val)

\* The signature of a PKCS7 remote.
C28_Witness ==
  /\ input.f = "update_signature" /\ output.returned
  /\ input.remote.keyring = "PKCS7"
  /\ input.url = MetadataUri
  /\ output.val.uri = MetadataUri \o <<".", "p", "7", "b">>


(* ------------------------------------------------------------------ *)
(* The events and the result of a fetch                                *)
(* ------------------------------------------------------------------ *)

\* The fetch of thread p succeeded after a download.
Downloaded(p) == Fetched(p) /\ result[p].kind = "Ok" /\ Gets(p) # <<>>

\* The places of the trace of thread p where the callback got an event.
CbAt(p) == {i \in 1..Len(trace[p]) : trace[p][i].t = "cb"}

\* C23: a fetch with a callback that succeeds after a download has delivered
\* DownloadInitiate(release.size) before the GET, then a DownloadUpdate after
\* each write with the bytes written so far (strictly increasing, the last
\* one the length of the body), then DownloadComplete, then
\* VerifyingChecksum right after the rewind and right before the file is
\* read for its digest; the events are in the trace of the calling thread
\* when the fetch has returned.
C23_EventsOfADownload ==
  \A p \in Procs :
    (Downloaded(p) /\ call[p].cb) =>
      LET evs == Events(p, "cb")
          n == Len(evs)
          body == Gets(p)[1].data
          verifying == CHOOSE i \in CbAt(p) : \A j \in CbAt(p) : j <= i
          initiate == CHOOSE i \in CbAt(p) : \A j \in CbAt(p) : i <= j
      IN /\ n >= 3
         /\ evs[1] = Cb("DownloadInitiate", TheRelease(p).size)
         /\ trace[p][initiate + 1].t = "http"
         /\ \A i \in 2..(n - 2) :
              /\ evs[i].op = "DownloadUpdate"
              /\ evs[i].n > 0
              /\ i > 2 => evs[i].n > evs[i - 1].n
         /\ \A i \in CbAt(p) :
              trace[p][i].op = "DownloadUpdate" => trace[p][i - 1] = Fs("write", FirmwarePath)
         /\ IF body = <<>> THEN n = 3 ELSE n > 3 /\ evs[n - 2].n = Len(body)
         /\ evs[n - 1] = Cb("DownloadComplete", 0)
         /\ evs[n] = Cb("VerifyingChecksum", 0)
         /\ trace[p][verifying - 1] = Fs("seek", FirmwarePath)
         /\ trace[p][verifying + 1].op = "read"

\* A download of the firmware, with a callback, that succeeded.
C23_Witness ==
  \E p \in Procs :
    /\ Downloaded(p) /\ call[p].cb /\ AllOk(p)
    /\ Gets(p)[1].data = Firmware
    /\ Events(p, "cb") = <<Cb("DownloadInitiate", Len(Firmware)), Cb("DownloadUpdate", Len(Firmware)),
                           Cb("DownloadComplete", 0), Cb("VerifyingChecksum", 0)>>

\* C26: a fetch for a Download remote that succeeds, by cache hit or by
\* download, returns the cache path of the firmware and an open handle on
\* the file at that path, at offset 0.
C26_PathAndRewoundHandle ==
  \A p \in Procs :
    (Fetched(p) /\ result[p].kind = "Ok" /\ Listed(p) /\ TheRemote(p).kind = "Download") =>
      /\ result[p].path
           = cache_path_from_uri(firmware_uri(TheRemote(p), TheRelease(p).uri).val)
      /\ result[p].file.ino # 0
      /\ result[p].file.ino = dir[result[p].path]
      /\ result[p].file.off = 0

\* A cache hit on a file that is not empty: the validation read it to its
\* end before it was handed over.
C26_Witness ==
  \E p \in Procs :
    /\ Fetched(p) /\ result[p].kind = "Ok" /\ Listed(p) /\ TheRemote(p).kind = "Download"
    /\ Gets(p) = <<>>
    /\ Len(inodes[result[p].file.ino]) > 0
    /\ result[p].file.off = 0

\* C27: when GetRemotes answers and no remote of the reply has the id of
\* the release, the fetch returns Err(RemoteNotFound); it does not panic and
\* has done nothing but the GetRemotes call: no HTTP request, no access to
\* the file system, no event to the callback.
C27_RemoteNotFound ==
  \A p \in Procs :
    (Fetched(p) /\ TheRelease(p).remote_id \notin RemoteIds) =>
      /\ result[p].kind = "Err"
      /\ trace[p][1].ok => result[p] = Err("RemoteNotFound")
      /\ Len(trace[p]) = 1 /\ trace[p][1].t = "dbus" /\ trace[p][1].op = "GetRemotes"
      /\ Now(FirmwarePath) = fs0[p][FirmwarePath]

\* A fetch, with a callback, of the release of a remote the service does
\* not list.
C27_Witness ==
  \E p \in Procs :
    /\ Fetched(p) /\ TheRelease(p).remote_id = IdGone /\ call[p].cb
    /\ result[p] = Err("RemoteNotFound")


(* ------------------------------------------------------------------ *)
(* The signature of the metadata                                       *)
(* ------------------------------------------------------------------ *)

\* The remote whose metadata thread p updates.
MetaRemote(p) == Unwrap(FindRemote(GetRemotes, call[p].remote))

\* Thread p has updated an enabled remote with a URI.
UpdatedEnabled(p) ==
  Updated(p) /\ MetaRemote(p).enabled /\ IsSome(MetaRemote(p).uri)

\* The GETs of thread p for a URI, answered or not.
GetsOf(p, uri) ==
  {i \in 1..Len(trace[p]) : trace[p][i].t = "http" /\ trace[p][i].op = "GET" /\ trace[p][i].path = uri}

\* C29, as stated: every update_metadata on an enabled remote with a URI
\* that returns Ok has fetched the signature over HTTP.  Violated: when the
\* cached metadata is found current, update_metadata returns at once and
\* fetches neither the metadata nor the signature.
C29_SignatureAlwaysFetched ==
  \A p \in Procs :
    (UpdatedEnabled(p) /\ result[p].kind = "Ok") =>
      GetsOf(p, update_signature(MetaRemote(p), Unwrap(MetaRemote(p).uri)).uri) # {}

\* C29, amended: update_metadata fetches the signature over HTTP exactly
\* when it has fetched the metadata, and then with no freshness check: the
\* cached signature is never opened or read, it is removed and downloaded.
\* When the cached metadata is found current, no HTTP request is made and
\* the service is not called.
C29_SignatureFetchedWithMetadata ==
  \A p \in Procs :
    (UpdatedEnabled(p) /\ result[p].kind # "Panic") =>
      LET remote == MetaRemote(p)
          uri == Unwrap(remote.uri)
          sig == update_signature(remote, uri)
          calls == {i \in 1..Len(trace[p]) : trace[p][i].t = "dbus"}
      IN /\ \A i \in 1..Len(trace[p]) :
              trace[p][i].path = sig.cache.val => trace[p][i].op \notin {"open", "read"}
         /\ Fs("seek", MetadataPath(remote)) \in {trace[p][i] : i \in 1..Len(trace[p])}
              => \/ GetsOf(p, sig.uri) # {}
                 \/ trace[p][Len(trace[p])] = FsFailed("create", sig.cache.val)
         /\ result[p].kind = "Ok" =>
              /\ GetsOf(p, uri) # {} <=> GetsOf(p, sig.uri) # {}
              /\ GetsOf(p, sig.uri) # {} <=> calls # {}
              /\ GetsOf(p, uri) = {} => Events(p, "http") = <<>>

\* An update that found a signature in the cache and no metadata, and
\* fetched both.
C29_Witness ==
  \E p \in Procs :
    /\ UpdatedEnabled(p) /\ result[p].kind = "Ok" /\ AllOk(p)
    /\ IsSome(fs0[p][SignaturePath(MetaRemote(p))])
    /\ GetsOf(p, update_signature(MetaRemote(p), Unwrap(MetaRemote(p).uri)).uri) # {}


(* ------------------------------------------------------------------ *)
(* The update of a device                                              *)
(* ------------------------------------------------------------------ *)

\* Thread p runs, or has run, update_device_with_release.
Updating(p) == call[p].op = "update_device_with_release"

\* Where in the trace of thread p FlashInProgress was delivered, and where
\* the Install call was made.
FlashAt(p) == {i \in 1..Len(trace[p]) : trace[p][i] = Cb("FlashInProgress", 0)}
InstallAt(p) == {i \in 1..Len(trace[p]) : trace[p][i].t = "dbus" /\ trace[p][i].op = "Install"}

\* What install does before the Install call: it opens the file by its
\* name when the fetch returned no handle.
OpensTheFile(e) == e.t = "fs" /\ e.op = "open"

\* C24: while the fetch runs nothing of the install has happened; when the
\* fetch has returned Ok, FlashInProgress is delivered once (with a
\* callback), as the last event, and the Install call follows it with
\* nothing between but the opening of the file; when the fetch returns an
\* error, update_device_with_release returns with no FlashInProgress and no
\* Install call.
C24_FlashThenInstall ==
  /\ [](\A p \in Procs : Updating(p) =>
          /\ pc[p] \in FetchLabels \cup {"u_offline", "u_flash"}
               => FlashAt(p) = {} /\ InstallAt(p) = {}
          /\ pc[p] = "u_install"
               => /\ InstallAt(p) = {}
                  /\ IF call[p].cb THEN FlashAt(p) = {Len(trace[p])} ELSE FlashAt(p) = {}
          /\ pc[p] = "done"
               => /\ Cardinality(FlashAt(p)) <= 1 /\ Cardinality(InstallAt(p)) <= 1
                  /\ result[p].kind = "Ok" => InstallAt(p) # {}
                  /\ InstallAt(p) # {} =>
                       /\ InstallAt(p) = {Len(trace[p])}
                       /\ call[p].cb <=> FlashAt(p) # {}
                  /\ \A i \in FlashAt(p) :
                       /\ \A j \in 1..Len(trace[p]) : trace[p][j].t = "cb" => j <= i
                       /\ \A j \in (i + 1)..(Len(trace[p]) - 1) : OpensTheFile(trace[p][j])
                       /\ \/ InstallAt(p) # {}
                          \/ trace[p][Len(trace[p])] = FsFailed("open", trace[p][Len(trace[p])].path))
  /\ [][\A p \in Procs :
          (Updating(p) /\ pc[p] \in FetchLabels /\ pc'[p] = "done")
            => /\ result'[p].kind # "Ok"
               /\ \A i \in 1..Len(trace'[p]) :
                    trace'[p][i] # Cb("FlashInProgress", 0) /\ trace'[p][i].op # "Install"]_vars

\* An update with a callback that downloaded the firmware and installed it.
C24_Witness ==
  \E p \in Procs :
    /\ Updating(p) /\ pc[p] = "done" /\ call[p].cb /\ result[p].kind = "Ok"
    /\ Gets(p) # <<>>
    /\ Cardinality(FlashAt(p)) = 1
    /\ FlashAt(p) = {Len(trace[p]) - 1}
    /\ InstallAt(p) = {Len(trace[p])}

\* C25: the Install call carries the offline option exactly when the device
\* has the only-offline flag or the caller passed OFFLINE; the other options
\* are those of the flags the caller passed.
C25_OfflineForced ==
  \A p \in Procs : Updating(p) =>
    \A i \in InstallAt(p) :
      /\ FlagsContain(trace[p][i].n, OFFLINE)
           <=> (call[p].only_offline \/ FlagsContain(call[p].given, OFFLINE))
      /\ FlagsContain(trace[p][i].n, ALLOW_OLDER) <=> FlagsContain(call[p].given, ALLOW_OLDER)

\* A device with the only-offline flag, and flags without OFFLINE.
C25_Witness ==
  \E p \in Procs :
    /\ Updating(p) /\ pc[p] = "done"
    /\ call[p].only_offline /\ call[p].given = ALLOW_OLDER
    /\ InstallAt(p) # {}
    /\ trace[p][Len(trace[p])].n = OFFLINE + ALLOW_OLDER


(* ------------------------------------------------------------------ *)
(* Two fetches of the same release                                     *)
(* ------------------------------------------------------------------ *)

\* The file the fetch of thread p returned does not hash to the checksum
\* of the release, or is no longer the file at the path returned.
HoldsBadFile(p) ==
  \/ ~Hashes(inodes[result[p].file.ino], Best(p))
  \/ dir[result[p].path] # result[p].file.ino

\* Thread q has created, written or removed the file at the path.
Touched(q, path) ==
  \E i \in 1..Len(trace[q]) :
    trace[q][i].t = "fs" /\ trace[q][i].path = path
    /\ trace[q][i].op \in {"create", "write", "remove"}

\* C30: nothing keeps two fetches of the same cache path apart: both
\* download, and a fetch that got the firmware, with no failure of its own,
\* returns Ok with a file that does not hash to the checksum or whose path
\* no longer exists (the witness).  It does so only when another fetch has
\* created, written or removed the file at that path: a fetch on its own
\* that got the firmware returns it.
C30_DamageComesFromTheOtherFetch ==
  \A p \in Procs :
    ( /\ Fetched(p) /\ result[p].kind = "Ok" /\ AllOk(p)
      /\ Gets(p) # <<>> /\ Gets(p)[1].data = Firmware
      /\ HoldsBadFile(p) )
      => \E q \in Procs \ {p} : Touched(q, result[p].path)

\* Both threads downloaded; the first got the firmware, verified it and
\* returned Ok, no call of its own having failed; the second wrote another
\* body over the file and then removed it.  The first holds a file that does
\* not hash to the checksum, under a path that no longer exists.
C30_Witness ==
  \E p \in Procs : \E q \in Procs \ {p} :
    /\ Fetched(p) /\ result[p].kind = "Ok" /\ AllOk(p)
    /\ Gets(p) # <<>> /\ Gets(p)[1].data = Firmware
    /\ Fetched(q) /\ Gets(q) # <<>>
    /\ fs0[p][FirmwarePath] = None
    /\ ~Hashes(inodes[result[p].file.ino], Best(p))
    /\ dir[result[p].path] = 0


(* ------------------------------------------------------------------ *)
(* The cached metadata                                                 *)
(* ------------------------------------------------------------------ *)

\* Thread p has updated an enabled remote with a URI and a checksum.
UpdatedWithChecksum(p) == UpdatedEnabled(p) /\ IsSome(MetaRemote(p).checksum)

\* The file (an Option of a content) exists and hashes to the last-known
\* checksum of the remote.
Current(file, remote) ==
  /\ IsSome(file)
  /\ HexDigest(checksum_guess_kind(Unwrap(remote.checksum)), Unwrap(file)) = Unwrap(remote.checksum)

\* Remote::fetch was entered for the path: it got as far as opening the
\* file it writes to.
FetchedAgain(p, path) ==
  \E i \in 1..Len(trace[p]) :
    trace[p][i].t = "fs" /\ trace[p][i].op = "create" /\ trace[p][i].path = path

\* Opening and reading the cached file did not fail.
CacheReadable(p, path) ==
  \A i \in 1..Len(trace[p]) :
    (trace[p][i].path = path /\ trace[p][i].op \in {"open", "read"}) => trace[p][i].ok

\* C31: for an enabled remote with a URI and a last-known checksum (and a
\* cached file that can be opened and read), update_metadata skips the fetch
\* of the metadata and the UpdateMetadata call exactly when the cached
\* metadata file exists and hashes to remote.checksum; otherwise the
\* metadata file is fetched again.  Violated: a cached file that does not
\* hash to the checksum is taken for current.
C31_SkipsExactlyWhenCurrent ==
  \A p \in Procs :
    (UpdatedWithChecksum(p) /\ CacheReadable(p, MetadataPath(MetaRemote(p)))) =>
      LET remote == MetaRemote(p)
          current == Current(fs0[p][MetadataPath(remote)], remote)
      IN /\ current => /\ result[p].kind = "Ok"
                       /\ Events(p, "http") = <<>> /\ Events(p, "dbus") = <<>>
         /\ ~current => FetchedAgain(p, MetadataPath(remote))

\* A call of Remote::fetch failed: the GET, a read of the response, or the
\* creation, a write or the rewind of the file.
FetchFailure(e) ==
  ~e.ok /\ (e.t = "http" \/ (e.t = "fs" /\ e.op \in {"create", "write", "seek"}))

\* The UpdateError a failure of Remote::fetch is returned as.
UpdateErrorOf(e) ==
  CASE e.op = "GET" -> "Get"
    [] e.op = "create" -> "Open"
    [] e.op = "seek" -> "Seek"
    [] OTHER -> "Copy"

\* C32: update_metadata fetches the metadata file, then the signature
\* file, and only then calls UpdateMetadata, once, with the id of the remote
\* and the two files it wrote, each holding the whole body and rewound to
\* offset 0; when a fetch fails, UpdateMetadata is not called and the error
\* of the fetch is what update_metadata returns.
C32_MetadataSignatureThenCall ==
  \A p \in Procs :
    (call[p].op = "update_metadata" /\ IsSome(MetaRemote(p).uri)) =>
      LET remote == MetaRemote(p)
          uri == Unwrap(remote.uri)
          sig == update_signature(remote, uri)
          n == Len(trace[p])
          calls == {i \in 1..n : trace[p][i].t = "dbus"}
          failed == {i \in 1..n : FetchFailure(trace[p][i])}
      IN /\ \A j \in GetsOf(p, sig.uri) :
              \E i \in GetsOf(p, uri) :
                /\ i < j /\ trace[p][i].ok
                /\ \E k \in (i + 1)..(j - 1) : trace[p][k] = Fs("seek", MetadataPath(remote))
         /\ \A c \in calls :
              /\ c = n /\ pc[p] = "done" /\ failed = {}
              /\ \E i \in GetsOf(p, uri) : \E j \in GetsOf(p, sig.uri) :
                   /\ i < j /\ j < c /\ trace[p][j].ok
                   /\ GetsOf(p, uri) = {i} /\ GetsOf(p, sig.uri) = {j}
                   /\ Now(MetadataPath(remote)) = Some(trace[p][i].data)
                   /\ Now(sig.cache.val) = Some(trace[p][j].data)
              /\ trace[p][c].path = remote.remote_id
              /\ trace[p][c].data = <<dir[MetadataPath(remote)], 0, dir[sig.cache.val], 0>>
         /\ \A f \in failed :
              /\ f = n /\ pc[p] = "done" /\ calls = {}
              /\ result[p] = Err(UpdateErrorOf(trace[p][f]))

\* An update that fetched the metadata, then the signature, and called the
\* service, which accepted the two files.
C32_Witness ==
  \E p \in Procs :
    /\ UpdatedEnabled(p) /\ result[p].kind = "Ok"
    /\ trace[p][Len(trace[p])].t = "dbus" /\ trace[p][Len(trace[p])].ok
    /\ \E i \in GetsOf(p, Unwrap(MetaRemote(p).uri)) : trace[p][i].data = Metadata
    /\ Now(SignaturePath(MetaRemote(p))) # None

\* update_file would take the file for the current metadata of the remote:
\* it exists and its validation, all reads succeeding, is Ok.
TakenForCurrent(file, remote) ==
  /\ IsSome(file)
  /\ LET checksum == Unwrap(remote.checksum)
         data == [bytes |-> Unwrap(file), fails |-> FALSE]
     IN MetadataIsCurrent(validate_checksum(data, checksum, checksum_guess_kind(checksum)))

\* C33: after an update_metadata whose fetch of the metadata or of the
\* signature failed (the GET, or the copy of the body), the metadata cache
\* path holds no file that the next update_metadata on the remote takes for
\* a valid cached copy: the next call fetches the metadata again.
\* Violated: the file Remote::fetch created stays, and is taken for current.
C33_FailedFetchIsRetried ==
  \A p \in Procs :
    (UpdatedWithChecksum(p) /\ result[p].kind = "Err" /\ result[p].err \in {"Get", "Copy"}) =>
      ~TakenForCurrent(Now(MetadataPath(MetaRemote(p))), MetaRemote(p))

\* C34: update_metadata on an enabled remote that has no URI fails with
\* UpdateError::NoUri.  Violated: it returns Ok(()), having done nothing.
C34_NoUriIsAnError ==
  \A p \in Procs :
    (Updated(p) /\ MetaRemote(p).enabled /\ MetaRemote(p).uri = None) =>
      result[p] = Err("NoUri")

\* C37: for an enabled remote with a URI and no last-known checksum,
\* update_metadata does not abort: it takes the cached metadata for stale
\* and fetches the metadata file.  Violated: update_file unwraps the
\* checksum before it looks at it, and panics.
C37_NoChecksumFetches ==
  \A p \in Procs :
    (UpdatedEnabled(p) /\ MetaRemote(p).checksum = None) =>
      /\ result[p].kind # "Panic"
      /\ FetchedAgain(p, MetadataPath(MetaRemote(p)))


(* ------------------------------------------------------------------ *)
(* The end of the sequence of signals                                  *)
(* ------------------------------------------------------------------ *)

\* The bus has lost no event: the events waiting are still waiting.
NothingConsumed == Len(bus') >= Len(bus) /\ SubSeq(bus', 1, Len(bus)) = bus

\* C35: once the sequence has ended it stays ended: a later pull returns
\* the end of the sequence, receives no event from the bus, loads the flag
\* no more and yields nothing, whatever is stored into the flag and
\* whatever arrives.
C35_EndedStaysEnded ==
  [][listener.state = "ended" =>
       /\ listener'.state = "ended"
       /\ listener'.received = listener.received
       /\ listener'.loads = listener.loads
       /\ listener'.yielded = listener.yielded
       /\ NothingConsumed]_vars

\* The sequence ended on a load of FALSE; a pull after that found the flag
\* TRUE again and an event waiting, and the event is still waiting.
C35_Witness ==
  /\ listener.state = "ended"
  /\ listener.loads[Len(listener.loads)] = FALSE
  /\ \E i \in 1..Len(listener.ends) : listener.ends[i]
  /\ bus # <<>>

\* What filter_map yields for a sequence of raw events.
RECURSIVE Decoded(_)
Decoded(events) ==
  IF events = <<>> THEN <<>> ELSE FilterMap(Head(events)) \o Decoded(Tail(events))

\* C36: the flag is loaded for every raw event received, whatever its
\* member and its body, before the event is filtered and decoded.  The
\* sequence ends on the first event whose load stops it, of whatever kind
\* the event is, and that event is received and never delivered: what is
\* yielded is what filter_map makes of the events before it.
C36_FlagBeforeDecoding ==
  /\ Len(listener.loads) = Len(listener.received)
  /\ \A i \in 1..Len(listener.loads) :
       ~TakeWhile(listener.loads[i]) <=> (i = Len(listener.loads) /\ listener.state = "ended")
  /\ listener.yielded = Decoded(Passed)

\* The sequence ended on a DeviceRequest with a well-formed body, which was
\* received and not delivered, after an event of an unrecognized member
\* for which the flag was loaded as well.
C36_Witness ==
  /\ listener.state = "ended"
  /\ Len(listener.received) = 2
  /\ listener.received[1].member \notin SignalNames
  /\ WellFormed(listener.received[2]) /\ listener.received[2].member = "DeviceRequest"
  /\ listener.loads = <<TRUE, FALSE>>
  /\ listener.yielded = <<>>


(* ------------------------------------------------------------------ *)
(* The file a download writes                                          *)
(* ------------------------------------------------------------------ *)

\* C38: after a fetch that downloaded and returned Ok, the cache file
\* holds the body of the HTTP response and nothing else, also when the
\* file existed before the download.  Violated: the existing file is
\* opened without truncation, and what it held beyond the length of the
\* body stays.
C38_FileIsTheBody ==
  \A p \in Procs :
    Downloaded(p) => Now(result[p].path) = Some(Gets(p)[1].data)


(* ------------------------------------------------------------------ *)
(* DownloadInitiate and DownloadComplete                               *)
(* ------------------------------------------------------------------ *)

\* Where the callback of thread p was handed the event.
Delivered(p, event) ==
  {i \in 1..Len(trace[p]) : trace[p][i].t = "cb" /\ trace[p][i].op = event}

\* A read of the response or a write of the file failed.
CopyFailure(e) ==
  ~e.ok /\ ((e.t = "http" /\ e.op \in {"read", "interrupted"}) \/ (e.t = "fs" /\ e.op = "write"))

\* C40: with a callback, DownloadInitiate is delivered at most once and
\* comes before the GET; a completed fetch has delivered DownloadComplete,
\* once and after DownloadInitiate, exactly when the GET was answered, and
\* not at all when the GET failed.  When the copy of the body fails,
\* DownloadComplete is still delivered, after the failure, VerifyingChecksum
\* is not, the file is removed and FirmwareCopy is returned.
C40_CompleteIffGetSucceeded ==
  \A p \in Procs :
    (call[p].op = "fetch" /\ call[p].cb) =>
      LET n == Len(trace[p])
          inits == Delivered(p, "DownloadInitiate")
          completes == Delivered(p, "DownloadComplete")
          gets == {i \in 1..n : trace[p][i].t = "http" /\ trace[p][i].op = "GET"}
          failures == {i \in 1..n : CopyFailure(trace[p][i])}
      IN /\ Cardinality(inits) <= 1 /\ Cardinality(completes) <= 1
         /\ \A g \in gets : inits = {g - 1}
         /\ \A c \in completes : \E g \in gets : g < c /\ trace[p][g].ok
         /\ \A f \in failures : completes = {f + 1}
         /\ Fetched(p) =>
              /\ inits # {} => gets # {}
              /\ (\E g \in gets : trace[p][g].ok) <=> completes # {}
              /\ (\E g \in gets : ~trace[p][g].ok) => completes = {}
              /\ failures # {} <=> result[p] = Err("FirmwareCopy")
              /\ failures # {} =>
                   /\ Delivered(p, "VerifyingChecksum") = {}
                   /\ Now(FirmwarePath) = None

\* A fetch with a callback whose copy failed after a part of the body was
\* written: DownloadUpdate, then DownloadComplete, were delivered, the file
\* was removed and FirmwareCopy returned.
C40_Witness ==
  \E p \in Procs :
    /\ Fetched(p) /\ call[p].cb /\ result[p] = Err("FirmwareCopy")
    /\ Delivered(p, "DownloadUpdate") # {}
    /\ Delivered(p, "DownloadComplete") # {}
    /\ Now(FirmwarePath) = None


(* ------------------------------------------------------------------ *)
(* The fetch with and without a callback                               *)
(* ------------------------------------------------------------------ *)

\* Both fetches of the pair have returned.
PairDone == pc[1] = "done" /\ pc[2] = "done" /\ output.returned

\* C39: the same release fetched from the same cache, the service, the
\* server and the file system answering the same, returns the same result
\* (Ok with the same path and file, or the same error) and leaves the same
\* cache with a callback and without one.  Violated: a read of the
\* response that a signal interrupts ends the copy with a callback and is
\* repeated without one.
C39_SameWithAndWithoutCallback ==
  PairDone => Outcome(3 - output.by) = output.val

====
